---- MODULE Spec2Model ----
(***************************************************************************)
(* Model of the statement parsers of uae2ynab:                             *)
(*   - the delimited-text tokenizer, the ADCB detector and the ADCB        *)
(*     extractors (adcb.ts),                                               *)
(*   - the layout reconstruction of extractTextFromPDF (enbd.ts),          *)
(*   - the Emirates NBD extractors and the date normalizers (enbd.ts),     *)
(*   - the YNAB serializer toYNABCSV and formatAmount (enbd.ts),           *)
(*   - the orchestrator parseFile (index.ts), one call and several calls   *)
(*     interleaved at their awaits.                                        *)
(* Strings are sequences of one-character strings, so that includes,       *)
(* startsWith, split, trim and the number parsers are computed character   *)
(* by character, as the code computes them.                                *)
(***************************************************************************)
EXTENDS Integers, Sequences, FiniteSets, TLC

VARIABLES
    pc,         \* position of the running operation
    csvLine,    \* tokenizer harness: the line handed to parseCSVLine
    csvFields,  \* tokenizer harness: the fields parseCSVLine returned
    frags,      \* layout harness: textContent.items of one page, as supplied
    layLines,   \* layout harness: mergedLines of that page after both sorts
    pageText,   \* layout harness: the page's text (pageLines.join)
    prevText,   \* layout harness: the text of the previous extraction
    file,       \* the File handed to parseFile (or the content handed to an extractor)
    result,     \* the ParseResult the call returned
    outcome,    \* the promise of parseFile: "none", "pending", "resolved", "rejected"
    pdfjsLib,   \* the module variable pdfjsLib of enbd.ts: "null" or "loaded"
    trace,      \* the service, detector and extractor calls of the running parseFile
    extractor,  \* the extractor that is running: "none", "creditcard", "account"
    extPages,   \* the local pages of the running extractTextFromPDF
    cursor,     \* ENBD harness: the pass and the line the extractor's loop is at
    detType,    \* detector harness: what detectADCBType returned
    dateIn,     \* date harness: the string handed to the date normalizers
    dateOut,    \* date harness: what parseDDMMYYYY and parseMonthDate returned
    expTxs,     \* export harness: the transactions handed to toYNABCSV
    expFormat,  \* export harness: the format handed to toYNABCSV
    expCsv,     \* export harness: the lines of the text toYNABCSV returned
    expAmount,  \* export harness: the number handed to formatAmount
    expAmountStr, \* export harness: the string formatAmount returned
    active,     \* the parseFile call whose continuation runs
    parked      \* the other parseFile calls, each suspended at an await

tokVars == <<csvLine, csvFields>>
layVars == <<frags, layLines, pageText, prevText>>
orcVars == <<file, result, outcome, pdfjsLib, trace, extractor, extPages>>
datVars == <<dateIn, dateOut>>
enbVars == <<cursor>>
detVars == <<detType>>
expVars == <<expTxs, expFormat, expCsv, expAmount, expAmountStr>>
conVars == <<active, parked>>
\* the variables of the harnesses of the pure functions
pureVars == <<tokVars, layVars, datVars, expVars, enbVars, detVars>>
vars == <<pc, orcVars, conVars, pureVars>>

\* no file, and the result of a call that has not returned
NoFile == [name |-> <<>>, kind |-> "none", text |-> <<>>, doc |-> <<>>]

NoResult ==
    [bankName |-> "", statementType |-> "", transactions |-> <<>>,
     metadata |-> <<>>, errors |-> <<>>]

\* the orchestrator's variables before any call
OrcAtRest ==
    /\ file = NoFile /\ result = NoResult /\ outcome = "none"
    /\ pdfjsLib = "null" /\ trace = <<>> /\ extractor = "none" /\ extPages = <<>>

\* the harness variables when no harness runs
TokAtRest == csvLine = <<>> /\ csvFields = <<>>

LayAtRest == frags = <<>> /\ layLines = <<>> /\ pageText = <<>> /\ prevText = <<>>

DatAtRest == dateIn = <<>> /\ dateOut = <<>>

ExpAtRest ==
    /\ expTxs = <<>> /\ expFormat = "none" /\ expCsv = <<>>
    /\ expAmount = 0 /\ expAmountStr = <<>>

\* no extractor loop runs
NoCursor == [pass |-> "none", at |-> 0]

EnbAtRest == cursor = NoCursor

\* the detector harness does not run
DetAtRest == detType = "none"

\* one call of parseFile at a time: nothing is suspended
ConAtRest == active = 1 /\ parked = <<>>

(***************************************************************************)
(* Strings                                                                 *)
(***************************************************************************)
DQ == "\""

\* String.prototype.trim strips these from both ends.
IsSpace(c) == c \in {" ", "\t", "\n", "\r"}

\* An operator that reads an argument more than once takes it under another
\* name and binds it as the one element of a set: { e : s \in {str} } has the
\* one element e, computed with str computed once, and CHOOSE returns it.

\* the number of characters at the start of s that satisfy Test
PrefixLen(str, Test(_)) ==
    CHOOSE out \in
        { (CHOOSE i \in 1..(Len(s) + 1) :
              /\ i = Len(s) + 1 \/ ~Test(s[i])
              /\ \A j \in 1..(i - 1) : Test(s[j])) - 1
          : s \in {str} } : TRUE

\* the longest prefix of s whose characters all satisfy Test
TakeWhile(str, Test(_)) ==
    CHOOSE out \in {SubSeq(s, 1, PrefixLen(s, Test)) : s \in {str}} : TRUE

\* s.trimStart()
TrimStart(str) ==
    CHOOSE out \in {SubSeq(s, PrefixLen(s, IsSpace) + 1, Len(s)) : s \in {str}} : TRUE

\* s.trimEnd()
TrimEnd(str) ==
    CHOOSE out \in
        { SubSeq(s, 1, CHOOSE i \in 0..Len(s) :
                          /\ i = 0 \/ ~IsSpace(s[i])
                          /\ \A j \in (i + 1)..Len(s) : IsSpace(s[j]))
          : s \in {str} } : TRUE

Trim(s) == TrimEnd(TrimStart(s))

\* s.startsWith(p)
StartsWith(str, prefix) ==
    \E s \in {str}, p \in {prefix} : Len(p) <= Len(s) /\ SubSeq(s, 1, Len(p)) = p

\* s.endsWith(p)
EndsWith(str, suffix) ==
    \E s \in {str}, p \in {suffix} :
        Len(p) <= Len(s) /\ SubSeq(s, Len(s) - Len(p) + 1, Len(s)) = p

\* s.includes(p)
Includes(str, part) ==
    \E s \in {str}, p \in {part} :
        \E i \in 1..(Len(s) - Len(p) + 1) : SubSeq(s, i, i + Len(p) - 1) = p

\* the number of elements of s that satisfy Test
CountIf(s, Test(_)) == Len(SelectSeq(s, Test))

(***************************************************************************)
(* Line tokenizer: parseCSVLine                                            *)
(***************************************************************************)
\* The locals of parseCSVLine before its loop.
CsvStart == [result |-> <<>>, current |-> <<>>, inQuotes |-> FALSE]

\* A slip of the loop body: a comma splits also inside a quoted span.
CsvStepSplitsInQuotes(st, ch) ==
    IF ch = DQ THEN [st EXCEPT !.inQuotes = ~@]
    ELSE IF ch = ","
         THEN [st EXCEPT !.result = Append(@, Trim(st.current)), !.current = <<>>]
         ELSE [st EXCEPT !.current = Append(@, ch)]

\* One iteration of the loop of parseCSVLine on character ch.
CsvStep(st, ch) ==
    IF ch = DQ THEN [st EXCEPT !.inQuotes = ~@]
    ELSE IF ch = "," /\ ~st.inQuotes
         THEN [st EXCEPT !.result = Append(@, Trim(st.current)), !.current = <<>>]
         ELSE [st EXCEPT !.current = Append(@, ch)]

\* The loop of parseCSVLine over the characters a..b of line, entered with
\* the locals st: the locals after them.  (The range is halved so that the
\* evaluation stays shallow on long lines; the characters are still taken
\* one by one, left to right.)
RECURSIVE CsvScan(_, _, _, _)
CsvScan(st, line, a, b) ==
    IF a > b THEN st
    ELSE IF a = b THEN CsvStep(st, line[a])
    ELSE LET mid == (a + b) \div 2
             half == CsvScan(st, line, a, mid)
         IN  IF half.inQuotes \in BOOLEAN THEN CsvScan(half, line, mid + 1, b) ELSE half

parseCSVLine(line) ==
    LET st == CsvScan(CsvStart, line, 1, Len(line))
    IN  Append(st.result, Trim(st.current))

(***************************************************************************)
(* Tokenizer harness: every line over CsvAlphabet up to MaxLineLen.        *)
(***************************************************************************)
MaxLineLen == 5

CsvAlphabet == {"a", " ", ",", DQ}

SeqsUpTo(S, n) == UNION {[1..k -> S] : k \in 0..n}

InitCSV ==
    /\ pc = "tok_ready"
    /\ csvLine \in SeqsUpTo(CsvAlphabet, MaxLineLen)
    /\ csvFields = <<>>
    /\ LayAtRest /\ DatAtRest /\ ExpAtRest /\ EnbAtRest /\ DetAtRest /\ OrcAtRest /\ ConAtRest

TokenizeLine ==
    /\ pc = "tok_ready"
    /\ csvFields' = parseCSVLine(csvLine)
    /\ pc' = "tok_done"
    /\ UNCHANGED <<csvLine, layVars, datVars, expVars, enbVars, detVars, orcVars, conVars>>

NextCSV == TokenizeLine

SpecCSV == InitCSV /\ [][NextCSV]_vars

(***************************************************************************)
(* Numbers.  A number is NaN or the decimal m / 10^e, which is exact for   *)
(* every decimal literal; -0 and 0 are the same value, as for === in the   *)
(* code.                                                                   *)
(***************************************************************************)
NaN == [nan |-> TRUE, m |-> 0, e |-> 0]

Num(m, e) == [nan |-> FALSE, m |-> m, e |-> e]

\* n === 0
NumIsZero(n) == ~n.nan /\ n.m = 0

\* n > 0
NumIsPositive(n) == ~n.nan /\ n.m > 0

\* -n
NumNegate(n) == [n EXCEPT !.m = -@]

DigitChars == <<"0", "1", "2", "3", "4", "5", "6", "7", "8", "9">>

\* \d
IsDigit(c) == \E i \in 1..10 : DigitChars[i] = c

DigitVal(c) == (CHOOSE i \in 1..10 : DigitChars[i] = c) - 1

\* the longest prefix of s made of digits
TakeDigits(s) == TakeWhile(s, IsDigit)

\* the value of the decimal digits ds
DigitsValue(digits) ==
    CHOOSE out \in
        { LET value[k \in 0..Len(ds)] ==
                  IF k = 0 THEN 0 ELSE value[k - 1] * 10 + DigitVal(ds[k])
          IN  value[Len(ds)]
          : ds \in {digits} } : TRUE

\* parseFloat: leading whitespace, a sign, digits, a point, digits; whatever
\* follows is ignored; NaN without a digit.  (Exponents and "Infinity" are not
\* modelled: no input of the model spells them.)
ParseFloat(str) ==
    CHOOSE out \in
        { LET signed == s0 # <<>> /\ Head(s0) \in {"-", "+"}
              neg == s0 # <<>> /\ Head(s0) = "-"
              start == IF signed THEN 2 ELSE 1
              ip == TakeDigits(SubSeq(s0, start, Len(s0)))
              point == start + Len(ip)
              fp == IF point <= Len(s0) /\ s0[point] = "."
                    THEN TakeDigits(SubSeq(s0, point + 1, Len(s0)))
                    ELSE <<>>
          IN  IF ip = <<>> /\ fp = <<>> THEN NaN
              ELSE Num((IF neg THEN -1 ELSE 1) * DigitsValue(ip \o fp), Len(fp))
          : s0 \in {TrimStart(str)} } : TRUE

NotComma(c) == c # ","

\* str.replace(/,/g, '')
RemoveCommas(str) == SelectSeq(str, NotComma)

(***************************************************************************)
(* ADCB statements (delimited text)                                        *)
(***************************************************************************)
\* parseAmount
parseAmount(str) ==
    IF str = <<>> \/ str = <<"0">> THEN Num(0, 0) ELSE ParseFloat(RemoveCommas(str))

\* the pieces of s between the positions of cuts, which hold 0 and Len(s) + 1
PiecesBetween(str, cutSet) ==
    CHOOSE out \in
        { [k \in 1..(Cardinality(cuts) - 1) |->
              LET from == CHOOSE i \in cuts : Cardinality({j \in cuts : j < i}) = k - 1
                  to == CHOOSE i \in cuts : Cardinality({j \in cuts : j < i}) = k
              IN  SubSeq(s, from + 1, to - 1)]
          : s \in {str}, cuts \in {cutSet} } : TRUE

\* s.split(c) for a one-character separator
SplitOn(str, c) ==
    CHOOSE out \in
        { PiecesBetween(s, {0, Len(s) + 1} \cup {i \in 1..Len(s) : s[i] = c})
          : s \in {str} } : TRUE

\* s.padStart(2, '0')
PadStart2(s) ==
    IF Len(s) >= 2 THEN s ELSE IF Len(s) = 1 THEN <<"0">> \o s ELSE <<"0", "0">>

\* parseDDMMYYYY (adcb.ts and enbd.ts hold the same function)
\* A slip of the date: day and month are not padded.
parseDDMMYYYYUnpadded(dateStr) ==
    LET parts == SplitOn(dateStr, "/")
    IN  IF Len(parts) # 3 THEN dateStr
        ELSE parts[3] \o <<"-">> \o parts[2] \o <<"-">> \o parts[1]

\* parseDDMMYYYY, the same in adcb.ts and in enbd.ts
parseDDMMYYYY(dateStr) ==
    LET parts == SplitOn(dateStr, "/")
    IN  IF Len(parts) # 3 THEN dateStr
        ELSE parts[3] \o <<"-">> \o PadStart2(parts[2]) \o <<"-">> \o PadStart2(parts[1])

\* /^\d{2}\/\d{2}\/\d{4}$/
IsDDMMYYYY(str) ==
    \E s \in {str} :
        /\ Len(s) = 10
        /\ \A i \in {1, 2, 4, 5, 7, 8, 9, 10} : IsDigit(s[i])
        /\ s[3] = "/" /\ s[6] = "/"

\* s.replace(/\s+/g, ' ')
CollapseSpaces(str) ==
    CHOOSE out \in
        { SelectSeq([i \in 1..Len(s) |->
                        IF ~IsSpace(s[i]) THEN s[i]
                        ELSE IF i > 1 /\ IsSpace(s[i - 1]) THEN "" ELSE " "],
                    LAMBDA c : c # "")
          : s \in {str} } : TRUE

\* cleanDescription
cleanDescription(desc) == IF desc = <<>> THEN <<>> ELSE Trim(CollapseSpaces(desc))

NonEmpty(s) == s # <<>>

\* content.split('\n').map(l => l.trim()).filter(Boolean)
ContentLines(content) ==
    LET raw == SplitOn(content, "\n")
    IN  SelectSeq([i \in 1..Len(raw) |-> Trim(raw[i])], NonEmpty)

\* lines.slice(0, 10).  The header scan of detectADCBType reads this many lines.
HeaderScanLines == 10

\* A slip of the header scan: every line is read, not lines.slice(0, 10).
detectADCBTypeUnsliced(content) ==
    LET lines == ContentLines(content)
        n == Len(lines)
        acct(l) == /\ Includes(l, <<"P", "o", "s", "t", "i", "n", "g", " ", "D", "a", "t", "e">>)
                   /\ Includes(l, <<"V", "a", "l", "u", "e", " ", "D", "a", "t", "e">>)
                   /\ Includes(l, <<"D", "e", "b", "i", "t", " ", "A", "m", "o", "u", "n", "t">>)
        card(l) == /\ Includes(l, <<"T", "r", "a", "n", "s", "a", "c", "t", "i", "o", "n", " ", "D",
                                    "a", "t", "e">>)
                   /\ Includes(l, <<"C", "r", "/", "D", "r">>)
                   /\ Includes(l, <<"A", "m", "o", "u", "n", "t", " ", "i", "n", " ", "A", "E",
                                    "D">>)
        hits == {i \in 1..n : acct(lines[i]) \/ card(lines[i])}
    IN  IF lines # <<>> /\ Includes(lines[1], <<"A", "c", "c", "o", "u", "n", "t", " ", "N", "u",
                                                "m", "b", "e", "r", ":">>) THEN "account"
        ELSE IF /\ lines # <<>>
                /\ Includes(lines[1], <<"S", "t", "a", "t", "e", "m", "e", "n", "t", " ", "P", "e",
                                        "r", "i", "o", "d">>)
                /\ \E i \in 1..Len(lines) : Includes(lines[i], <<"C", "r", "e", "d", "i", "t", " ",
                        "L", "i", "m", "i", "t">>)
             THEN "creditcard"
        ELSE IF hits = {} THEN "null"
        ELSE LET i == CHOOSE h \in hits : \A g \in hits : h <= g
             IN  IF acct(lines[i]) THEN "account" ELSE "creditcard"

\* detectADCBType: "account", "creditcard" or "null"
detectADCBType(content) ==
    LET lines == ContentLines(content)
        n == IF Len(lines) < HeaderScanLines THEN Len(lines) ELSE HeaderScanLines
        acct(l) == /\ Includes(l, <<"P", "o", "s", "t", "i", "n", "g", " ", "D", "a", "t", "e">>)
                   /\ Includes(l, <<"V", "a", "l", "u", "e", " ", "D", "a", "t", "e">>)
                   /\ Includes(l, <<"D", "e", "b", "i", "t", " ", "A", "m", "o", "u", "n", "t">>)
        card(l) == /\ Includes(l, <<"T", "r", "a", "n", "s", "a", "c", "t", "i", "o", "n", " ", "D",
                                    "a", "t", "e">>)
                   /\ Includes(l, <<"C", "r", "/", "D", "r">>)
                   /\ Includes(l, <<"A", "m", "o", "u", "n", "t", " ", "i", "n", " ", "A", "E",
                                    "D">>)
        hits == {i \in 1..n : acct(lines[i]) \/ card(lines[i])}
    IN  IF lines # <<>> /\ Includes(lines[1], <<"A", "c", "c", "o", "u", "n", "t", " ", "N", "u",
                                                "m", "b", "e", "r", ":">>) THEN "account"
        ELSE IF /\ lines # <<>>
                /\ Includes(lines[1], <<"S", "t", "a", "t", "e", "m", "e", "n", "t", " ", "P", "e",
                                        "r", "i", "o", "d">>)
                /\ \E i \in 1..Len(lines) : Includes(lines[i], <<"C", "r", "e", "d", "i", "t", " ",
                        "L", "i", "m", "i", "t">>)
             THEN "creditcard"
        ELSE IF hits = {} THEN "null"
        ELSE LET i == CHOOSE h \in hits : \A g \in hits : h <= g
             IN  IF acct(lines[i]) THEN "account" ELSE "creditcard"

\* the longest prefix of s without a double quote
TakeUnquoted(s) == TakeWhile(s, LAMBDA c : c # DQ)

\* line.match(/<label>\s*([^"]+)/), or with colon /<label>\s*:\s*([^"]+)/:
\* [found, text], text being group 1 of the leftmost match.  \s* gives its
\* last blank back to the group when nothing else can start it.
MatchLabel(line, label, colon) ==
    LET after(p) == SubSeq(line, p + Len(label), Len(line))
        body(p) == IF ~colon THEN after(p)
                   ELSE IF TrimStart(after(p)) # <<>> /\ Head(TrimStart(after(p))) = ":"
                        THEN Tail(TrimStart(after(p)))
                        ELSE <<DQ>>
        group(b) == IF TrimStart(b) # <<>> /\ Head(TrimStart(b)) # DQ
                    THEN TakeUnquoted(TrimStart(b))
                    ELSE IF Len(TrimStart(b)) < Len(b)
                         THEN <<b[Len(b) - Len(TrimStart(b))]>>
                         ELSE <<>>
        hits == {p \in 1..(Len(line) - Len(label) + 1) :
                    /\ SubSeq(line, p, p + Len(label) - 1) = label
                    /\ group(body(p)) # <<>>}
    IN  IF hits = {} THEN [found |-> FALSE, text |-> <<>>]
        ELSE [found |-> TRUE,
              text |-> group(body(CHOOSE p \in hits : \A r \in hits : p <= r))]

\* s.replace(/\s*,\s*$/, '')
StripTrailingComma(s) ==
    LET t == TrimEnd(s)
    IN  IF t # <<>> /\ t[Len(t)] = "," THEN TrimEnd(SubSeq(t, 1, Len(t) - 1)) ELSE s

\* The metadata object after the scanned lines: caps is a set of
\* <<key, capture>> where capture(line) is [found, text]; a later line
\* overwrites an earlier one.
MetadataOf(scanned, keys, Capture(_, _)) ==
    LET hits(k) == {i \in 1..Len(scanned) : Capture(k, scanned[i]).found}
        last(k) == CHOOSE i \in hits(k) : \A j \in hits(k) : j <= i
    IN  [k \in {key \in keys : hits(key) # {}} |-> Capture(k, scanned[last(k)]).text]

NoMetadata == [k \in {} |-> <<>>]

ParseResult(bank, type, txs, meta, errs) ==
    [bankName |-> bank, statementType |-> type, transactions |-> txs,
     metadata |-> meta, errors |-> errs]

Transaction(date, payee, memo, amount, originalDate) ==
    [date |-> date, payee |-> payee, memo |-> memo, amount |-> amount,
     originalDate |-> originalDate]

\* a row that is skipped
Skip == [ok |-> FALSE, tx |-> Transaction(<<>>, <<>>, <<>>, NaN, <<>>)]

Accept(tx) == [ok |-> TRUE, tx |-> tx]

\* the transactions pushed for the rows, in row order
PushedRows(rows) ==
    LET kept == SelectSeq(rows, LAMBDA r : r.ok)
    IN  [i \in 1..Len(kept) |-> kept[i].tx]

\* the index of the first line that satisfies IsHeader, 0 for headerIndex = -1
HeaderIndex(lines, IsHeader(_)) ==
    LET hits == {i \in 1..Len(lines) : IsHeader(lines[i])}
    IN  IF hits = {} THEN 0 ELSE CHOOSE i \in hits : \A j \in hits : i <= j

\* the lines the metadata loop reads: up to and including the header row
ScannedLines(lines, h) == IF h = 0 THEN lines ELSE SubSeq(lines, 1, h)

IsAccountHeader(line) ==
    StartsWith(line, <<"P", "o", "s", "t", "i", "n", "g", " ", "D", "a", "t",
                       "e">>) \/ Includes(line, <<"P", "o", "s", "t", "i", "n", "g", " ", "D", "a",
                       "t", "e", ",", "V", "a", "l", "u", "e", " ", "D", "a", "t", "e">>)

AccountCapture(key, line) ==
    LET stripped(c) == [c EXCEPT !.text = StripTrailingComma(Trim(c.text))]
    IN  CASE key = "accountNumber" ->
               IF Includes(line, <<"A", "c", "c", "o", "u", "n", "t", " ", "N", "u", "m", "b", "e",
                                   "r", ":">>)
               THEN stripped(MatchLabel(line, <<"A", "c", "c", "o", "u", "n", "t", " ", "N", "u",
                                                "m", "b", "e", "r", ":">>, FALSE))
               ELSE [found |-> FALSE, text |-> <<>>]
          [] key = "period" ->
               IF Includes(line, <<"S", "t", "a", "t", "e", "m", "e", "n", "t", " ", "P", "e", "r",
                                   "i", "o", "d", ":">>)
               THEN stripped(MatchLabel(line, <<"S", "t", "a", "t", "e", "m", "e", "n", "t", " ",
                                                "P", "e", "r", "i", "o", "d", ":">>, FALSE))
               ELSE [found |-> FALSE, text |-> <<>>]
          [] key = "accountName" ->
               IF Includes(line, <<"A", "c", "c", "o", "u", "n", "t", " ", "N", "a", "m", "e">>)
               THEN stripped(MatchLabel(line, <<"A", "c", "c", "o", "u", "n", "t", " ", "N", "a",
                                                "m", "e", "(", "s", ")", ":">>, FALSE))
               ELSE [found |-> FALSE, text |-> <<>>]

\* the amount of an account row: credit > 0 ? credit : -debit
\* A slip of the amount: the debit column is looked at first.
AccountAmountDebitFirst(debit, credit) ==
    IF NumIsPositive(debit) THEN NumNegate(debit) ELSE credit

\* const amount = credit > 0 ? credit : -debit
AccountAmount(debit, credit) ==
    IF NumIsPositive(credit) THEN credit ELSE NumNegate(debit)

\* One iteration of the row loop of parseADCBAccount.
AccountRow(line) ==
    LET fields == parseCSVLine(line)
    IN  IF Len(fields) < 6 THEN Skip
        ELSE IF fields[1] = <<>> \/ ~IsDDMMYYYY(fields[1]) THEN Skip
        ELSE LET debit == parseAmount(fields[5])
                 credit == parseAmount(fields[6])
             IN  IF NumIsZero(debit) /\ NumIsZero(credit) THEN Skip
                 ELSE Accept(Transaction(parseDDMMYYYY(fields[1]),
                                         cleanDescription(fields[4]), <<>>,
                                         AccountAmount(debit, credit), fields[1]))

\* A slip of the extractor: the test of headerIndex is left out and every
\* line is read as a row.
parseADCBAccountWithoutAnchor(content) ==
    LET lines == ContentLines(content)
        metadata == MetadataOf(lines, {"accountNumber", "period", "accountName"},
                               AccountCapture)
    IN  ParseResult("ADCB", "Account Statement",
                    PushedRows([i \in 1..Len(lines) |-> AccountRow(lines[i])]),
                    metadata, <<>>)

parseADCBAccount(content) ==
    LET lines == ContentLines(content)
        h == HeaderIndex(lines, IsAccountHeader)
        metadata == MetadataOf(ScannedLines(lines, h),
                               {"accountNumber", "period", "accountName"}, AccountCapture)
    IN  IF h = 0
        THEN ParseResult("ADCB", "Account Statement", <<>>, metadata,
                 << <<"C", "o", "u", "l", "d", " ", "n", "o", "t", " ", "f", "i", "n", "d", " ", "h",
                      "e", "a", "d", "e", "r", " ", "r", "o", "w", " ", "i", "n", " ", "A", "D", "C",
                      "B", " ", "a", "c", "c", "o", "u", "n", "t", " ", "s", "t", "a", "t", "e", "m",
                      "e", "n", "t">> >>)
        ELSE ParseResult("ADCB", "Account Statement",
                 PushedRows([i \in 1..(Len(lines) - h) |-> AccountRow(lines[h + i])]),
                 metadata, <<>>)

IsCardHeader(line) ==
    Includes(line, <<"T", "r", "a", "n", "s", "a", "c", "t", "i", "o", "n", " ", "D", "a", "t",
                     "e">>) /\ Includes(line, <<"C", "r", "/", "D", "r">>)

CardCapture(key, line) ==
    LET trimmed(c) == [c EXCEPT !.text = Trim(c.text)]
    IN  CASE key = "period" ->
               IF Includes(line, <<"S", "t", "a", "t", "e", "m", "e", "n", "t", " ", "P", "e", "r",
                                   "i", "o", "d">>)
               THEN trimmed(MatchLabel(line, <<"S", "t", "a", "t", "e", "m", "e", "n", "t", " ", "P",
                                               "e", "r", "i", "o", "d">>, TRUE))
               ELSE [found |-> FALSE, text |-> <<>>]
          [] key = "balance" ->
               IF Includes(line, <<"C", "u", "r", "r", "e", "n", "t", " ", "B", "a", "l", "a", "n",
                                   "c", "e">>)
               THEN trimmed(MatchLabel(line, <<"C", "u", "r", "r", "e", "n", "t", " ", "B", "a", "l",
                                               "a", "n", "c", "e", ":">>, FALSE))
               ELSE [found |-> FALSE, text |-> <<>>]
          [] key = "creditLimit" ->
               IF Includes(line, <<"C", "r", "e", "d", "i", "t", " ", "L", "i", "m", "i",
                                   "t">>) /\ ~Includes(line, <<"A", "v", "a", "i", "l", "a", "b",
                                   "l", "e">>)
               THEN trimmed(MatchLabel(line, <<"C", "r", "e", "d", "i", "t", " ", "L", "i", "m", "i",
                                               "t", ":">>, FALSE))
               ELSE [found |-> FALSE, text |-> <<>>]

\* the amount of a card row: crDr === 'CR' ? rawAmount : -rawAmount
CardAmount(crDr, rawAmount) ==
    IF crDr = <<"C", "R">> THEN rawAmount ELSE NumNegate(rawAmount)

\* One iteration of the row loop of parseADCBCreditCard.
CardRow(line) ==
    LET fields == parseCSVLine(line)
    IN  IF Len(fields) < 4 THEN Skip
        ELSE IF \/ Includes(fields[2], <<"P", "r", "i", "m", "a", "r", "y", " ", "C", "a", "r", "d",
                                         " ", "N", "u", "m", "b", "e", "r">>)
                \/ Includes(fields[2], <<"C", "a", "r", "d", " ", "H", "o", "l", "d", "e", "r", " ",
                                         "N", "a", "m", "e">>) THEN Skip
        ELSE IF fields[1] = <<>> \/ ~IsDDMMYYYY(fields[1]) THEN Skip
        ELSE LET rawAmount == parseAmount(fields[4])
             IN  IF NumIsZero(rawAmount) THEN Skip
                 ELSE Accept(Transaction(parseDDMMYYYY(fields[1]),
                                         cleanDescription(fields[2]), <<>>,
                                         CardAmount(fields[3], rawAmount), fields[1]))

parseADCBCreditCard(content) ==
    LET lines == ContentLines(content)
        h == HeaderIndex(lines, IsCardHeader)
        metadata == MetadataOf(ScannedLines(lines, h),
                               {"period", "balance", "creditLimit"}, CardCapture)
    IN  IF h = 0
        THEN ParseResult("ADCB", "Credit Card Statement", <<>>, metadata,
                 << <<"C", "o", "u", "l", "d", " ", "n", "o", "t", " ", "f", "i", "n", "d", " ", "h",
                      "e", "a", "d", "e", "r", " ", "r", "o", "w", " ", "i", "n", " ", "A", "D", "C",
                      "B", " ", "c", "r", "e", "d", "i", "t", " ", "c", "a", "r", "d", " ", "s", "t",
                      "a", "t", "e", "m", "e", "n", "t">> >>)
        ELSE ParseResult("ADCB", "Credit Card Statement",
                 PushedRows([i \in 1..(Len(lines) - h) |-> CardRow(lines[h + i])]),
                 metadata, <<>>)

(***************************************************************************)
(* Layout reconstruction: the per-page body of extractTextFromPDF.         *)
(* A fragment is [str, tx, ty2]: item.str, item.transform[4] and           *)
(* item.transform[5], the latter counted in half units so that Math.round  *)
(* has something to round.                                                 *)
(***************************************************************************)
Y_TOLERANCE == 4

Abs(n) == IF n < 0 THEN -n ELSE n

\* Math.round of y2 / 2: the nearest integer, halves towards +infinity.
MathRound(y2) == (y2 + 1) \div 2

\* !item.str || item.str.trim() === ''
IsBlank(str) == str = <<>> \/ Trim(str) = <<>>

\* Array.prototype.sort with comparator key(a) - key(b): ascending in keys and
\* stable, so elements with equal keys keep their order in seq.
StableSortByKey(seq, keys) ==
    LET n == Len(seq)
        rank(i) == 1 + Cardinality({j \in 1..n :
                        keys[j] < keys[i] \/ (keys[j] = keys[i] /\ j < i)})
    IN  [p \in 1..n |-> seq[CHOOSE i \in 1..n : rank(i) = p]]

\* rawItems after the filtering loop. src (the fragment's index in the supplied
\* items) is a ghost field that identifies the fragment; the code's line items
\* keep only x and text, the model's keep y and src with them, unread by the
\* code's steps.
RawItems(items) ==
    LET all == [i \in 1..Len(items) |->
                   [x |-> items[i].tx, y |-> MathRound(items[i].ty2),
                    text |-> items[i].str, src |-> i]]
        keep(r) == ~IsBlank(r.text)
    IN  SelectSeq(all, keep)

\* A slip of the preparation: the items are merged in the order supplied.
SortItemsByYDescSkipped(raw) == raw

\* rawItems.sort((a, b) => b.y - a.y)
SortItemsByYDesc(raw) == StableSortByKey(raw, [i \in 1..Len(raw) |-> -raw[i].y])

\* A slip of the lookup: the distance is taken from the line's last fragment.
FindLineChained(mergedLines, item) ==
    LET hits == {l \in 1..Len(mergedLines) :
                    Abs(mergedLines[l].items[Len(mergedLines[l].items)].y - item.y)
                        <= Y_TOLERANCE}
    IN  IF hits = {} THEN 0 ELSE CHOOSE l \in hits : \A m \in hits : l <= m

\* mergedLines.find(l => Math.abs(l.y - item.y) <= Y_TOLERANCE): the index of
\* the first such line, 0 when there is none.
FindLine(mergedLines, item) ==
    LET hits == {l \in 1..Len(mergedLines) :
                    Abs(mergedLines[l].y - item.y) <= Y_TOLERANCE}
    IN  IF hits = {} THEN 0 ELSE CHOOSE l \in hits : \A m \in hits : l <= m

\* One iteration of the merging loop.
MergeItem(mergedLines, item) ==
    LET l == FindLine(mergedLines, item)
    IN  IF l # 0
        THEN [mergedLines EXCEPT ![l].items = Append(@, item)]
        ELSE Append(mergedLines, [y |-> item.y, items |-> <<item>>])

\* mergedLines after the first k items of the sorted rawItems.
RECURSIVE MergeLines(_, _)
MergeLines(sorted, k) ==
    IF k = 0 THEN <<>> ELSE MergeItem(MergeLines(sorted, k - 1), sorted[k])

\* A slip of the final ordering: lines bottom of the page first.
SortLinesByYAsc(mergedLines) ==
    StableSortByKey(mergedLines, [l \in 1..Len(mergedLines) |-> mergedLines[l].y])

\* mergedLines.sort((a, b) => b.y - a.y)
SortLinesByYDesc(mergedLines) ==
    StableSortByKey(mergedLines, [l \in 1..Len(mergedLines) |-> -mergedLines[l].y])

\* A slip of the output loop: the line's items are left in push order.
SortItemsByXSkipped(its) == its

\* line.items.sort((a, b) => a.x - b.x)
SortItemsByX(its) == StableSortByKey(its, [i \in 1..Len(its) |-> its[i].x])

\* strs.join(sep)
RECURSIVE Join(_, _)
Join(strs, sep) ==
    IF strs = <<>> THEN <<>>
    ELSE IF Len(strs) = 1 THEN strs[1]
    ELSE strs[1] \o sep \o Join(Tail(strs), sep)

\* mergedLines as the output loop leaves it: lines sorted, each line's items sorted.
MergedLines(items) ==
    LET sorted == SortItemsByYDesc(RawItems(items))
        merged == SortLinesByYDesc(MergeLines(sorted, Len(sorted)))
    IN  [l \in 1..Len(merged) |->
            [y |-> merged[l].y, items |-> SortItemsByX(merged[l].items)]]

\* lineItems.map(i => i.text).join(' ')
LineText(line) == Join([i \in 1..Len(line.items) |-> line.items[i].text], <<" ">>)

\* pageLines.join('\n')
PageTextOf(mergedLines) ==
    Join([l \in 1..Len(mergedLines) |-> LineText(mergedLines[l])], <<"\n">>)

(***************************************************************************)
(* Character classes and small pattern helpers                             *)
(***************************************************************************)
UpperChars == <<"A", "B", "C", "D", "E", "F", "G", "H", "I", "J", "K", "L", "M", "N", "O", "P", "Q",
                "R", "S", "T", "U", "V", "W", "X", "Y", "Z">>

LowerChars == <<"a", "b", "c", "d", "e", "f", "g", "h", "i", "j", "k", "l", "m", "n", "o", "p", "q",
                "r", "s", "t", "u", "v", "w", "x", "y", "z">>

\* c.toLowerCase()
LowerChar(c) ==
    IF \E i \in 1..26 : UpperChars[i] = c
    THEN LowerChars[CHOOSE i \in 1..26 : UpperChars[i] = c]
    ELSE c

\* s.toLowerCase()
ToLower(str) == CHOOSE out \in {[i \in 1..Len(s) |-> LowerChar(s[i])] : s \in {str}} : TRUE

\* \w
IsWordChar(c) ==
    \/ IsDigit(c)
    \/ c = "_"
    \/ \E i \in 1..26 : UpperChars[i] = c \/ LowerChars[i] = c

SpaceChars == {" ", "\t", "\n", "\r"}

DigitSet == {DigitChars[i] : i \in 1..10}

\* [\d,]
AmountChars == DigitSet \cup {","}

IsAmountChar(c) == c \in AmountChars

NotNewline(c) == c # "\n"

\* the longest prefix of s whose characters are in S
TakeIn(s, S) == TakeWhile(s, LAMBDA c : c \in S)

\* the longest prefix of s without a character of S
TakeOut(s, S) == TakeWhile(s, LAMBDA c : c \notin S)

\* s.substring(n) for 0 <= n
Drop(s, n) == SubSeq(s, n + 1, Len(s))

\* the number of leading blanks of s
LeadingSpaces(s) == PrefixLen(s, IsSpace)

\* the number of characters of s from position from on that satisfy Test,
\* up to the first one that does not
RunFrom(s, from, Test(_)) == PrefixLen(SubSeq(s, from, Len(s)), Test)

\* the number of characters of s back from position to that satisfy Test
RunBack(str, to, Test(_)) ==
    CHOOSE out \in
        { e - (CHOOSE a \in 0..e :
                  /\ a = 0 \/ ~Test(s[a])
                  /\ \A j \in (a + 1)..e : Test(s[j]))
          : s \in {str}, e \in {to} } : TRUE

\* the least and the greatest element of a non-empty set of numbers
Least(set) == CHOOSE out \in {CHOOSE i \in S : \A j \in S : i <= j : S \in {set}} : TRUE

Greatest(set) == CHOOSE out \in {CHOOSE i \in S : \A j \in S : j <= i : S \in {set}} : TRUE

\* the 1-based positions at which p occurs in s
Occurrences(str, part) ==
    CHOOSE out \in
        { {i \in 1..(Len(s) - Len(p) + 1) : SubSeq(s, i, i + Len(p) - 1) = p}
          : s \in {str}, p \in {part} } : TRUE

NoCapture == [found |-> FALSE, text |-> <<>>]

\* text.match(/<label>[<skip>]*(<group>)/) where the group is a greedy run of
\* characters inside (neg = FALSE) or outside (neg = TRUE) the set cls: [found,
\* text] of the leftmost match.  The skipped run is as long as possible; it
\* gives characters back only when the group could not start otherwise.
MatchSkipGroup(text, label, skip, cls, neg) ==
    CHOOSE out \in
        { LET in(c) == IF neg THEN c \notin cls ELSE c \in cls
              \* the positions at which the group can start, for the label at p
              starts(p) ==
                  {g \in (p + Len(label))..(p + Len(label)
                                             + RunFrom(t, p + Len(label), LAMBDA c : c \in skip)) :
                      g <= Len(t) /\ in(t[g])}
              hits == {p \in Occurrences(t, label) : starts(p) # {}}
          IN  IF hits = {} THEN NoCapture
              ELSE CHOOSE cap \in
                       { [found |-> TRUE, text |-> SubSeq(t, g, g + RunFrom(t, g, in) - 1)]
                         : g \in {Greatest(starts(Least(hits)))} } : TRUE
          : t \in {text} } : TRUE

(***************************************************************************)
(* Emirates NBD statements (document text)                                 *)
(***************************************************************************)
\* detectENBDType: "account", "creditcard" or "null".  The Arabic phrase is
\* spelled with one element per letter.
ArabicCardStatement ==
    <<"U+0643", "U+0634", "U+0641", " ", "U+062D", "U+0633", "U+0627", "U+0628", " ",
      "U+0628", "U+0637", "U+0627", "U+0642", "U+0629">>

detectENBDType(str) ==
    CHOOSE out \in
        { IF \/ Includes(text, <<"C", "r", "e", "d", "i", "t", " ", "C", "a", "r", "d", " ", "S",
                                 "t", "a", "t", "e", "m", "e", "n", "t">>)
             \/ Includes(text, ArabicCardStatement)
          THEN "creditcard"
          ELSE IF \/ Includes(text, <<"A", "c", "c", "o", "u", "n", "t", " ", "S", "t", "a", "t",
                                      "e", "m", "e", "n", "t">>)
                  \/ Includes(text, <<"S", "T", "A", "T", "E", "M", "E", "N", "T", " ", "O", "F",
                                      " ", "A", "C", "C", "O", "U", "N", "T">>)
          THEN "account"
          ELSE "null"
          : text \in {str} } : TRUE

\* desc.replace(/\bARE\s*$/, '')
StripTrailingARE(str) ==
    CHOOSE out \in
        { IF /\ EndsWith(t, <<"A", "R", "E">>)
             /\ (Len(t) = 3 \/ ~IsWordChar(t[Len(t) - 3]))
          THEN SubSeq(t, 1, Len(t) - 3)
          ELSE s
          : <<s, t>> \in {<<d, TrimEnd(d)>> : d \in {str}} } : TRUE

\* /\bABUDHABI\b/i matches s at position p
AbuDhabiAt(s, p) ==
    /\ p + 7 <= Len(s)
    /\ ToLower(SubSeq(s, p, p + 7)) = <<"a", "b", "u", "d", "h", "a", "b", "i">>
    /\ (p = 1 \/ ~IsWordChar(s[p - 1]))
    /\ (p + 8 > Len(s) \/ ~IsWordChar(s[p + 8]))

\* desc.replace(/\bABUDHABI\b/gi, 'ABU DHABI'): each character of s gives its
\* replacement and what is inserted after it, and the empty slots are dropped
ExpandAbuDhabi(str) ==
    CHOOSE out \in
        { SelectSeq([k \in 1..(2 * Len(s)) |->
                        LET i == (k + 1) \div 2
                            at == {h \in hits : h <= i /\ i <= h + 7}
                        IN  IF k % 2 = 1
                            THEN IF at = {} THEN s[i]
                                 ELSE <<"A", "B", "U", "D", "H", "A", "B", "I">>[i - Least(at) + 1]
                            ELSE IF (i - 2) \in hits THEN " " ELSE ""],
                    LAMBDA c : c # "")
          : <<s, hits>> \in {<<d, {p \in 1..Len(d) : AbuDhabiAt(d, p)}>> : d \in {str}} } : TRUE

\* cleanENBDDescription
cleanENBDDescription(desc) ==
    IF desc = <<>> THEN <<>>
    ELSE Trim(ExpandAbuDhabi(StripTrailingARE(CollapseSpaces(desc))))

\* The trailing amount of a line: s matched against
\* /([\d,]+\.\d{2})(CR)?\s*$/: [found, start, amountStr, cr] of the leftmost
\* match, start being its 1-based position.
TrailingAmount(str) ==
    CHOOSE out \in
        { LET cr == last >= 2 /\ s[last - 1] = "C" /\ s[last] = "R"
              \* the position of the second digit after the point
              n == IF cr THEN last - 2 ELSE last
              cents == /\ n >= 4
                       /\ s[n - 2] = "." /\ IsDigit(s[n - 1]) /\ IsDigit(s[n])
                       /\ s[n - 3] \in AmountChars
              \* the first position of the run of [\d,] that ends before the point
              first == n - 2 - RunBack(s, n - 3, IsAmountChar)
          IN  IF ~cents THEN [found |-> FALSE, start |-> 0, amountStr |-> <<>>, cr |-> FALSE]
              ELSE [found |-> TRUE, start |-> first,
                    amountStr |-> SubSeq(s, first, n), cr |-> cr]
          : <<s, last>> \in {<<d, Len(TrimEnd(d))>> : d \in {str}} } : TRUE

NoPrimaryMatch ==
    [found |-> FALSE, transDate |-> <<>>, description |-> <<>>, amountStr |-> <<>>,
     cr |-> FALSE]

\* line.match(/^(\d{2}\/\d{2}\/\d{4})\s+(\d{2}\/\d{2}\/\d{4})\s+(.+?)\s+([\d,]+\.\d{2})(CR)?\s*$/):
\* [found, transDate, description, amountStr, cr].  (The lines of a page hold
\* no line terminator, so that . matches every character of them.)
PrimaryMatch(str) ==
    CHOOSE out \in
        { LET \* the blanks after the first date, and the last position of the second
              w1 == RunFrom(line, 11, IsSpace)
              q == 20 + w1
              \* the blanks before the amount, back to the text they follow
              gap == IF am.start - 1 > q THEN RunBack(line, am.start - 1, IsSpace) ELSE 0
              bodyEnd == am.start - 1 - gap
              lead == RunFrom(line, q + 1, IsSpace)
          IN  IF ~(Len(line) >= 10 /\ IsDDMMYYYY(SubSeq(line, 1, 10))) THEN NoPrimaryMatch
              ELSE IF ~(w1 >= 1 /\ Len(line) >= q
                        /\ IsDDMMYYYY(SubSeq(line, 11 + w1, q))) THEN NoPrimaryMatch
              ELSE IF ~am.found \/ gap = 0 THEN NoPrimaryMatch
              ELSE IF bodyEnd > q
                   \* date, blanks, text, blanks, amount: the text is group 3
                   THEN IF lead >= 1
                        THEN [found |-> TRUE, transDate |-> SubSeq(line, 1, 10),
                              description |-> SubSeq(line, q + 1 + lead, bodyEnd),
                              amountStr |-> am.amountStr, cr |-> am.cr]
                        ELSE NoPrimaryMatch
                   \* only blanks between date and amount: \s+ (.+?) \s+ take at
                   \* least one each, group 3 is the last blank but one
                   ELSE IF gap >= 3
                        THEN [found |-> TRUE, transDate |-> SubSeq(line, 1, 10),
                              description |-> <<line[am.start - 2]>>,
                              amountStr |-> am.amountStr, cr |-> am.cr]
                        ELSE NoPrimaryMatch
          : <<line, am>> \in {<<l, TrailingAmount(l)>> : l \in {str}} } : TRUE

IsAdminPrimary(description) ==
    \/ Includes(description, <<"T", "r", "a", "n", "s", "a", "c", "t", "i", "o", "n", " ", "D", "a",
                               "t", "e">>)
    \/ Includes(description, <<"P", "o", "s", "t", "i", "n", "g", " ", "D", "a", "t", "e">>)
    \/ Includes(description, <<"P", "r", "e", "v", "i", "o", "u", "s", " ", "S", "t", "a", "t", "e",
                               "m", "e", "n", "t">>)

IsAdminFallback(description) ==
    \/ Includes(description, <<"T", "r", "a", "n", "s", "a", "c", "t", "i", "o", "n", " ", "D", "a",
                               "t", "e">>)
    \/ Includes(description, <<"P", "o", "s", "t", "i", "n", "g", " ", "D", "a", "t", "e">>)

\* the memo of the row at line i: the next line when it is an exchange-rate note
MemoAfter(lines, i) ==
    IF i + 1 > Len(lines) THEN <<>>
    ELSE CHOOSE out \in
             { IF StartsWith(next, <<"(", "1", " ", "A", "E", "D", " ", "=">>) \/ StartsWith(next,
                                     <<"(", "1", " ", "U", "S", "D", " ", "=">>)
               THEN next ELSE <<>>
               : next \in {Trim(lines[i + 1])} } : TRUE

\* crFlag === 'CR' ? cleanAmount : -cleanAmount
FlaggedAmount(cr, cleanAmount) == IF cr THEN cleanAmount ELSE NumNegate(cleanAmount)

\* One iteration of the line loop of parseENBDCreditCard (primary pattern).
PrimaryRow(lines, i) ==
    CHOOSE out \in
        { IF ~m.found THEN Skip
          ELSE IF IsAdminPrimary(m.description) THEN Skip
          ELSE IF cleanAmount.nan \/ NumIsZero(cleanAmount) THEN Skip
          ELSE Accept(Transaction(parseDDMMYYYY(m.transDate),
                                  cleanENBDDescription(m.description),
                                  MemoAfter(lines, i),
                                  FlaggedAmount(m.cr, cleanAmount), m.transDate))
          : <<m, cleanAmount>> \in
                {<<pm, ParseFloat(RemoveCommas(pm.amountStr))>> :
                    pm \in {PrimaryMatch(Trim(lines[i]))}} } : TRUE

\* description.replace(/([\d,]+\.\d{2})(CR)?\s*$/, '')
StripTrailingAmount(str) ==
    CHOOSE out \in
        { IF am.found THEN SubSeq(s, 1, am.start - 1) ELSE s
          : <<s, am>> \in {<<d, TrailingAmount(d)>> : d \in {str}} } : TRUE

\* the description parseENBDCreditCardFallback makes of a line that starts
\* with a date
FallbackDescription(line) ==
    CHOOSE out \in
        { LET second == /\ Len(rest) >= 11
                        /\ IsDDMMYYYY(SubSeq(rest, 1, 10))
                        /\ IsSpace(rest[11])
          IN  Trim(StripTrailingAmount(IF second THEN TrimStart(Drop(rest, 10)) ELSE rest))
          : rest \in {Trim(Drop(line, 10))} } : TRUE

\* One iteration of the line loop of parseENBDCreditCardFallback.
FallbackRow(lines, i) ==
    CHOOSE out \in
        { LET cleanAmount == ParseFloat(RemoveCommas(am.amountStr))
          IN  IF ~(Len(line) >= 10 /\ IsDDMMYYYY(SubSeq(line, 1, 10))) THEN Skip
              ELSE IF ~am.found THEN Skip
              ELSE IF description = <<>> \/ IsAdminFallback(description) THEN Skip
              ELSE IF cleanAmount.nan \/ NumIsZero(cleanAmount) THEN Skip
              ELSE Accept(Transaction(parseDDMMYYYY(SubSeq(line, 1, 10)),
                                      cleanENBDDescription(description),
                                      MemoAfter(lines, i),
                                      FlaggedAmount(am.cr, cleanAmount), SubSeq(line, 1, 10)))
          : <<line, am, description>> \in
                {<<l, TrailingAmount(l), FallbackDescription(l)>> : l \in {Trim(lines[i])}} }
        : TRUE

\* the rows of one page: Row(lines, i) for each line of pageText.split('\n')
RowsOfPage(text, Row(_, _)) ==
    CHOOSE out \in
        { [i \in 1..Len(lines) |-> Row(lines, i)] : lines \in {SplitOn(text, "\n")} } : TRUE

\* the rows of every page, page after page
RowsOfPages(pages, Row(_, _)) ==
    LET all[p \in 0..Len(pages)] ==
            IF p = 0 THEN <<>> ELSE all[p - 1] \o RowsOfPage(pages[p], Row)
    IN  all[Len(pages)]

\* the transactions of parseENBDCreditCard's primary loop
PrimaryTransactions(pages) == PushedRows(RowsOfPages(pages, PrimaryRow))

\* the transactions parseENBDCreditCardFallback pushes
FallbackTransactions(pages) == PushedRows(RowsOfPages(pages, FallbackRow))

\* the entries of metadata: the keys whose pattern matched
MetadataOfCaptures(captures) ==
    CHOOSE out \in
        { [k \in {key \in DOMAIN caps : caps[key].found} |-> caps[k].text]
          : caps \in {captures} } : TRUE

\* match[1].trim()
Trimmed(capture) == [capture EXCEPT !.text = Trim(@)]

\* fullText.match(/Card Number[:\s]*([\dX\s*]+)/) and
\* fullText.match(/Statement Period[:\s]*(.+?)(?:\n|$)/)
CreditCardMetadata(fullText) ==
    MetadataOfCaptures(
        [cardNumber |->
             Trimmed(MatchSkipGroup(fullText, <<"C", "a", "r", "d", " ", "N", "u", "m", "b", "e",
                                                "r">>, SpaceChars \cup {":"},
                                    DigitSet \cup SpaceChars \cup {"X", "*"}, FALSE)),
         period |->
             Trimmed(MatchSkipGroup(fullText, <<"S", "t", "a", "t", "e", "m", "e", "n", "t", " ",
                                                "P", "e", "r", "i", "o", "d">>,
                                                SpaceChars \cup {":"},
                                    {"\n"}, TRUE))])

\* The body of the try block of parseENBDCreditCard once the pages are there.
CreditCardResult(pages) ==
    CHOOSE out \in
        { ParseResult("Emirates NBD", "Credit Card Statement",
                      IF primary = <<>> THEN FallbackTransactions(pages) ELSE primary,
                      CreditCardMetadata(Join(pages, <<"\n">>)), <<>>)
          : primary \in {PrimaryTransactions(pages)} } : TRUE

\* the catch block of both ENBD extractors
PdfParsingError(type, message) ==
    ParseResult("Emirates NBD", type, <<>>, NoMetadata,
                << <<"P", "D", "F", " ", "p", "a", "r", "s", "i", "n", "g", " ", "e", "r", "r", "o",
                     "r", ":", " ">> \o message >>)

\* Jan .. Dec in lower case, in calendar order (the keys of months)
MonthNames ==
    << <<"j", "a", "n">>, <<"f", "e", "b">>, <<"m", "a", "r">>, <<"a", "p", "r">>, <<"m", "a", "y">>,
         <<"j", "u", "n">>,
       <<"j", "u", "l">>, <<"a", "u", "g">>, <<"s", "e", "p">>, <<"o", "c", "t">>, <<"n", "o", "v">>,
         <<"d", "e", "c">> >>

IsMonthName(str) == \E w \in {ToLower(str)} : \E i \in 1..12 : MonthNames[i] = w

\* months[month.toLowerCase()]: "01" .. "12"
MonthNumber(str) ==
    CHOOSE out \in
        { <<DigitChars[(i \div 10) + 1], DigitChars[(i % 10) + 1]>>
          : i \in {k \in 1..12 : MonthNames[k] = ToLower(str)} } : TRUE

NoDatePrefix == [found |-> FALSE, dateStr |-> <<>>, length |-> 0]

\* line matched against /^\s*(\d{1,2}\s+(?:Jan|...|Dec)\s+\d{4})/i, and with
\* strict also the \s+ that follows it: [found, dateStr, length], length
\* being the length of the whole match.
DatePrefix(str, strict) ==
    CHOOSE out \in
        { LET \* the positions of the day, the month and the year, and the one
              \* after the year
              day == LeadingSpaces(line) + 1
              dayLen == RunFrom(line, day, IsDigit)
              month == day + dayLen + RunFrom(line, day + dayLen, IsSpace)
              year == month + 3 + RunFrom(line, month + 3, IsSpace)
              after == year + 4
          IN  IF ~(dayLen \in {1, 2} /\ month > day + dayLen) THEN NoDatePrefix
              ELSE IF ~(/\ month + 2 <= Len(line)
                        /\ IsMonthName(SubSeq(line, month, month + 2))
                        /\ year > month + 3) THEN NoDatePrefix
              ELSE IF ~(/\ after - 1 <= Len(line)
                        /\ \A i \in year..(after - 1) : IsDigit(line[i])) THEN NoDatePrefix
              ELSE IF strict /\ RunFrom(line, after, IsSpace) = 0 THEN NoDatePrefix
              ELSE [found |-> TRUE, dateStr |-> SubSeq(line, day, after - 1),
                    length |-> after - 1
                                 + (IF strict THEN RunFrom(line, after, IsSpace) ELSE 0)]
          : line \in {str} } : TRUE

\* -?[\d,]+\.\d{2} matched at position p of s: the position of its last
\* character, 0 without a match
AmountEndAt(s, p) ==
    CHOOSE out \in
        { IF /\ e > q + 2 /\ e <= Len(s)
             /\ s[e - 2] = "." /\ IsDigit(s[e - 1]) /\ IsDigit(s[e])
          THEN e ELSE 0
          : <<q, e>> \in {<<d, d + RunFrom(s, d, IsAmountChar) + 2>> :
                             d \in {IF s[p] = "-" THEN p + 1 ELSE p}} } : TRUE

\* The matches of /-?[\d,]+\.\d{2}/g in s from position from on, in order:
\* [value, index] with the 0-based index of the match.
RECURSIVE AmountMatches(_, _)
AmountMatches(str, from) ==
    CHOOSE out \in
        { IF p > Len(s) THEN <<>>
          ELSE CHOOSE rest \in
                   { IF e = 0 THEN AmountMatches(s, p + 1)
                     ELSE <<[value |-> ParseFloat(RemoveCommas(SubSeq(s, p, e))),
                             index |-> p - 1]>> \o AmountMatches(s, e + 1)
                     : e \in {AmountEndAt(s, p)} } : TRUE
          : s \in {str}, p \in {from} } : TRUE

\* rest.match(/([\d,]+\.\d{2})\s*(?:Cr|Dr)\s*$/i) is not null
EndsWithBalance(rest) ==
    \E <<t, n>> \in {<<d, Len(TrimEnd(SubSeq(d, 1, Len(d) - 2)))>> : d \in {TrimEnd(rest)}} :
        /\ Len(t) >= 2
        /\ ToLower(SubSeq(t, Len(t) - 1, Len(t))) \in {<<"c", "r">>, <<"d", "r">>}
        /\ n >= 4
        /\ t[n - 2] = "." /\ IsDigit(t[n - 1]) /\ IsDigit(t[n])
        /\ t[n - 3] \in AmountChars

\* trimmed.match(/^\d+\s*\/\s*\d+$/)
IsPageNumber(str) ==
    \E t \in {str} :
        LET slash == RunFrom(t, 1, IsDigit) + 1
                        + RunFrom(t, RunFrom(t, 1, IsDigit) + 1, IsSpace)
            second == slash + 1 + RunFrom(t, slash + 1, IsSpace)
        IN  /\ RunFrom(t, 1, IsDigit) >= 1
            /\ slash <= Len(t) /\ t[slash] = "/"
            /\ second <= Len(t)
            /\ second + RunFrom(t, second, IsDigit) = Len(t) + 1

\* the tests that end the continuation loop on a line without a date
IsFooter(str) ==
    \E trimmed \in {str} :
        \/ trimmed = <<>>
        \/ Includes(trimmed, <<"S", "T", "A", "T", "E", "M", "E", "N", "T", " ", "O", "F", " ", "A",
                               "C", "C", "O", "U", "N", "T">>)
        \/ Includes(trimmed, <<"e", "l", "e", "c", "t", "r", "o", "n", "i", "c", "a", "l", "l", "y",
                               " ", "g", "e", "n", "e", "r", "a", "t", "e", "d">>)
        \/ Includes(trimmed, <<"N", "e", "e", "d", " ", "h", "e", "l", "p">>)
        \/ Includes(trimmed, <<"E", "m", "i", "r", "a", "t", "e", "s", " ", "N", "B", "D">>)
        \/ IsPageNumber(trimmed)
        \/ StartsWith(trimmed, <<"T", "h", "i", "s", " ", "i", "s", " ", "a", "n">>)

\* A slip of the continuation loop: only a line with a date ends it.
RECURSIVE GatherContinuationPastFooter(_, _, _)
GatherContinuationPastFooter(lines, from, description) ==
    CHOOSE out \in
        { IF j > Len(lines) THEN fullDescription
          ELSE IF DatePrefix(lines[j], FALSE).found THEN fullDescription
          ELSE GatherContinuationPastFooter(lines, j + 1,
                                            fullDescription \o <<" ">> \o Trim(lines[j]))
          : j \in {from}, fullDescription \in {description} } : TRUE

\* The continuation loop of parseENBDAccount: fullDescription after the
\* lines from j on.
RECURSIVE GatherContinuation(_, _, _)
GatherContinuation(lines, from, description) ==
    CHOOSE out \in
        { IF j > Len(lines) THEN fullDescription
          ELSE IF DatePrefix(lines[j], FALSE).found THEN fullDescription
          ELSE IF IsFooter(Trim(lines[j])) THEN fullDescription
          ELSE GatherContinuation(lines, j + 1, fullDescription \o <<" ">> \o Trim(lines[j]))
          : j \in {from}, fullDescription \in {description} } : TRUE

NoMonthDate == [found |-> FALSE, day |-> <<>>, month |-> <<>>, year |-> <<>>]

\* /(\d{1,2})\s+(\w{3})\s+(\d{4})/ matched at position p of s with a day of d
\* digits: [found, day, month, year]
MonthDateAt(s, p, d) ==
    CHOOSE out \in
        { IF /\ p + d - 1 <= Len(s)
             /\ \A i \in p..(p + d - 1) : IsDigit(s[i])
             /\ month > p + d
             /\ month + 2 <= Len(s) /\ \A i \in month..(month + 2) : IsWordChar(s[i])
             /\ year > month + 3
             /\ year + 3 <= Len(s) /\ \A i \in year..(year + 3) : IsDigit(s[i])
          THEN [found |-> TRUE, day |-> SubSeq(s, p, p + d - 1),
                month |-> SubSeq(s, month, month + 2), year |-> SubSeq(s, year, year + 3)]
          ELSE NoMonthDate
          : <<month, year>> \in
                {<<m, m + 3 + RunFrom(s, m + 3, IsSpace)>> :
                    m \in {p + d + RunFrom(s, p + d, IsSpace)}} } : TRUE

\* dateStr.match(/(\d{1,2})\s+(\w{3})\s+(\d{4})/i): the leftmost match, its
\* day two digits long when that matches
MonthDateMatch(dateStr) ==
    CHOOSE out \in
        { LET hits == {p \in 1..Len(s) : MonthDateAt(s, p, 2).found \/ MonthDateAt(s, p, 1).found}
          IN  IF hits = {} THEN NoMonthDate
              ELSE CHOOSE m \in
                       { IF MonthDateAt(s, p, 2).found THEN MonthDateAt(s, p, 2)
                         ELSE MonthDateAt(s, p, 1)
                         : p \in {Least(hits)} } : TRUE
          : s \in {dateStr} } : TRUE

\* parseMonthDate
parseMonthDate(dateStr) ==
    CHOOSE out \in
        { IF ~m.found THEN dateStr
          ELSE IF ~IsMonthName(m.month) THEN dateStr
          ELSE m.year \o <<"-">> \o MonthNumber(m.month) \o <<"-">> \o PadStart2(m.day)
          : m \in {MonthDateMatch(dateStr)} } : TRUE

\* A slip of the amount: the last number of the row, its balance, is taken.
RowAmountLast(amounts) == amounts[Len(amounts)].value

\* amount = amounts[0].value, in both branches of amounts.length >= 2
RowAmount(amounts) == amounts[1].value

\* One iteration of the line loop of parseENBDAccount.
AccountStatementRow(lines, i) ==
    CHOOSE out \in
        { LET description == Trim(SubSeq(rest, 1, amounts[1].index))
              amount == RowAmount(amounts)
          IN  IF ~dm.found THEN Skip
              ELSE IF amounts = <<>> THEN Skip
              ELSE IF \/ description = <<>>
                      \/ description = <<"D", "e", "s", "c", "r", "i", "p", "t", "i", "o", "n">>
                      \/ Includes(description, <<"D", "a", "t", "e">>) THEN Skip
              ELSE IF Len(amounts) = 1 /\ EndsWithBalance(rest) THEN Skip
              ELSE IF amount.nan \/ NumIsZero(amount) THEN Skip
              ELSE Accept(Transaction(parseMonthDate(dm.dateStr),
                                      cleanENBDDescription(
                                          GatherContinuation(lines, i + 1, description)),
                                      <<>>, amount, dm.dateStr))
          : <<dm, rest, amounts>> \in
                {<<x[1], x[2], IF x[1].found THEN AmountMatches(x[2], 1) ELSE <<>> >> :
                    x \in {<<d, Drop(lines[i], d.length)>> :
                              d \in {DatePrefix(lines[i], TRUE)}}} } : TRUE

\* fullText.match(/IBAN\s*(AE[\d]+)/)
IbanMatch(fullText) ==
    CHOOSE out \in
        { LET \* the position of "AE" for the label at p
              code(p) == p + 4 + RunFrom(t, p + 4, IsSpace)
              hits == {p \in Occurrences(t, <<"I", "B", "A", "N">>) :
                          /\ SubSeq(t, code(p), code(p) + 1) = <<"A", "E">>
                          /\ RunFrom(t, code(p) + 2, IsDigit) >= 1}
          IN  IF hits = {} THEN NoCapture
              ELSE CHOOSE cap \in
                       { [found |-> TRUE,
                          text |-> SubSeq(t, c, c + 1 + RunFrom(t, c + 2, IsDigit))]
                         : c \in {code(Least(hits))} } : TRUE
          : t \in {fullText} } : TRUE

\* fullText.match(/Currency\s+(AED|USD|EUR|GBP)/)
CurrencyMatch(fullText) ==
    CHOOSE out \in
        { LET code(p) == p + 8 + RunFrom(t, p + 8, IsSpace)
              hits == {p \in Occurrences(t, <<"C", "u", "r", "r", "e", "n", "c", "y">>) :
                          /\ code(p) > p + 8
                          /\ SubSeq(t, code(p), code(p) + 2)
                                 \in {<<"A", "E", "D">>, <<"U", "S", "D">>, <<"E", "U", "R">>, <<"G",
                                        "B", "P">>}}
          IN  IF hits = {} THEN NoCapture
              ELSE CHOOSE cap \in
                       { [found |-> TRUE, text |-> SubSeq(t, c, c + 2)]
                         : c \in {code(Least(hits))} } : TRUE
          : t \in {fullText} } : TRUE

\* \s+to\s+(.+?)(?:\n|$) matched after position e of t: group 2, empty
\* without a match.  The blanks after "to" keep one blank at least and leave
\* the group one character that is no line break.
PeriodEnd(t, e) ==
    CHOOSE out \in
        { IF ~(to > e + 1 /\ ToLower(SubSeq(t, to, to + 1)) = <<"t", "o">>) THEN <<>>
          ELSE LET starts == {g \in (to + 3)..(to + 2 + RunFrom(t, to + 2, IsSpace)) :
                                 g <= Len(t) /\ t[g] # "\n"}
               IN  IF starts = {} THEN <<>>
                   ELSE CHOOSE group \in
                            { SubSeq(t, g, g + RunFrom(t, g, NotNewline) - 1)
                              : g \in {Greatest(starts)} } : TRUE
          : to \in {e + 1 + RunFrom(t, e + 1, IsSpace)} } : TRUE

\* fullText.match(/STATEMENT OF ACCOUNT FOR THE PERIOD OF\s+(.+?)\s+to\s+(.+?)(?:\n|$)/i)
\* and the value stored for it: group 1, " to ", group 2, both trimmed.
\* After the label the blanks are as many as possible and group 1 is as short
\* as possible.
PeriodMatch(fullText) ==
    CHOOSE out \in
        { LET label == <<"s", "t", "a", "t", "e", "m", "e", "n", "t", " ", "o", "f", " ", "a", "c",
                         "c", "o", "u", "n", "t", " ", "f", "o", "r", " ", "t", "h", "e", " ", "p",
                         "e", "r", "i", "o", "d", " ", "o", "f">>
              \* the positions at which group 1 can start for the label at p,
              \* and at which it can end when it starts at g
              starts(p) == (p + Len(label) + 1)
                               ..(p + Len(label) + RunFrom(t, p + Len(label), IsSpace))
              ends(g) == {e \in g..(g + RunFrom(t, g, NotNewline) - 1) : PeriodEnd(t, e) # <<>>}
              matches(p) == {g \in starts(p) : g <= Len(t) /\ ends(g) # {}}
              hits == {p \in Occurrences(ToLower(t), label) : matches(p) # {}}
          IN  IF hits = {} THEN NoCapture
              ELSE CHOOSE cap \in
                       { [found |-> TRUE,
                          text |-> Trim(SubSeq(t, ge[1], ge[2])) \o <<" ", "t", "o", " ">>
                                       \o Trim(PeriodEnd(t, ge[2]))]
                         : ge \in {<<g, Least(ends(g))>> :
                                      g \in {Greatest(matches(Least(hits)))}} } : TRUE
          : t \in {fullText} } : TRUE

\* the metadata of parseENBDAccount
AccountStatementMetadata(fullText) ==
    CHOOSE out \in
        { MetadataOfCaptures(
              [accountNumber |->
                   Trimmed(MatchSkipGroup(t, <<"A", "c", "c", "o", "u", "n", "t", " ", "N", "o",
                                               ".">>, SpaceChars, DigitSet, FALSE)),
               iban |-> Trimmed(IbanMatch(t)),
               period |-> PeriodMatch(t),
               currency |-> Trimmed(CurrencyMatch(t))])
          : t \in {fullText} } : TRUE

\* The body of the try block of parseENBDAccount once the pages are there.
AccountStatementResult(pages) ==
    ParseResult("Emirates NBD", "Account Statement",
                PushedRows(RowsOfPages(pages, AccountStatementRow)),
                AccountStatementMetadata(Join(pages, <<"\n">>)), <<>>)

(***************************************************************************)
(* Layout harness: one page of up to MaxFrags fragments, extracted, then   *)
(* supplied again with two of its fragments exchanged and extracted again. *)
(***************************************************************************)
MaxFrags == 3

\* transform[5] in half units: 100, 101.5 (rounded to 102) and 106
FragYs == {200, 203, 212}

FragXs == {10, 20}

FragChoices ==
    [str : {<<"A">>, <<"B">>}, tx : FragXs, ty2 : FragYs]
        \cup {[str |-> <<>>, tx |-> 10, ty2 |-> 203], [str |-> <<" ">>, tx |-> 20, ty2 |-> 212]}

InitLayout ==
    /\ pc = "lay_ready"
    /\ frags \in SeqsUpTo(FragChoices, MaxFrags)
    /\ layLines = <<>> /\ pageText = <<>> /\ prevText = <<>>
    /\ TokAtRest /\ DatAtRest /\ ExpAtRest /\ EnbAtRest /\ DetAtRest /\ OrcAtRest /\ ConAtRest

\* The page loop body of extractTextFromPDF on the supplied fragments.
ExtractPage ==
    /\ pc = "lay_ready"
    /\ \E merged \in {MergedLines(frags)} :
          /\ layLines' = merged
          /\ pageText' = PageTextOf(merged)
    /\ pc' = "lay_done"
    /\ UNCHANGED <<frags, prevText, tokVars, datVars, expVars, enbVars, detVars, orcVars, conVars>>

\* The service supplies the same fragments with those at i and j exchanged,
\* and the page is extracted again.
ExtractReordered ==
    /\ pc = "lay_done"
    /\ \E i \in 1..Len(frags) : \E j \in (i + 1)..Len(frags) :
          \E again \in {[frags EXCEPT ![i] = frags[j], ![j] = frags[i]]} :
              \E merged \in {MergedLines(again)} :
                  /\ frags' = again
                  /\ layLines' = merged
                  /\ pageText' = PageTextOf(merged)
    /\ prevText' = pageText
    /\ pc' = "lay_again"
    /\ UNCHANGED <<tokVars, datVars, expVars, enbVars, detVars, orcVars, conVars>>

NextLayout == ExtractPage \/ ExtractReordered

SpecLayout == InitLayout /\ [][NextLayout]_vars

(***************************************************************************)
(* Orchestrator: parseFile, parseCSVFile, parsePDFFile, parseXLSXFile      *)
(* (index.ts) and the asynchronous part of the two document extractors     *)
(* (enbd.ts).  A call runs from "idle" to "done"; each await of the code   *)
(* is a pc value, named after the call that is awaited there.  The trace   *)
(* records every call to a content service, a detector or an extractor.    *)
(***************************************************************************)
\* A slip of the routing: the suffix tests on the name as typed.
RouteAsTyped(name) ==
    IF EndsWith(name, <<".", "c", "s", "v">>) THEN "csv"
    ELSE IF EndsWith(name, <<".", "p", "d", "f">>) THEN "pdf"
    ELSE IF EndsWith(name, <<".", "x", "l", "s", "x">>) \/ EndsWith(name, <<".", "x", "l",
                             "s">>) THEN "xlsx"
    ELSE "unsupported"

\* the route parseFile takes for file.name
Route(name) ==
    LET fileName == ToLower(name)
    IN  IF EndsWith(fileName, <<".", "c", "s", "v">>) THEN "csv"
        ELSE IF EndsWith(fileName, <<".", "p", "d", "f">>) THEN "pdf"
        ELSE IF EndsWith(fileName, <<".", "x", "l", "s", "x">>) \/ EndsWith(fileName, <<".", "x",
                                     "l", "s">>) THEN "xlsx"
        ELSE "unsupported"

\* the ParseResult of the last branch of parseFile
UnsupportedResult(name) ==
    ParseResult("Unknown", "Unknown", <<>>, NoMetadata,
                << <<"U", "n", "s", "u", "p", "p", "o", "r", "t", "e", "d", " ", "f", "i", "l", "e",
                     " ", "t", "y", "p", "e", ":", " ">> \o ToLower(name)
                     \o <<".", " ", "P", "l", "e", "a", "s", "e", " ", "u", "p", "l", "o", "a", "d",
                          " ", "a", " ", "C", "S", "V", ",", " ", "P", "D", "F", ",", " ", "o", "r",
                          " ", "X", "L", "S", "X", " ", "f", "i", "l", "e", ".">> >>)

CsvUndetected ==
    <<"C", "o", "u", "l", "d", " ", "n", "o", "t", " ", "d", "e", "t", "e", "c", "t", " ", "C", "S",
      "V", " ", "s", "t", "a", "t", "e", "m", "e", "n", "t", " ", "t", "y", "p", "e", ".", " ", "C",
      "u", "r", "r", "e", "n", "t", "l", "y", " ", "s", "u", "p", "p", "o", "r", "t", "s", " ", "A",
      "D", "C", "B", " ", "a", "c", "c", "o", "u", "n", "t", " ", "a", "n", "d", " ", "c", "r", "e",
      "d", "i", "t", " ", "c", "a", "r", "d", " ", "s", "t", "a", "t", "e", "m", "e", "n", "t", "s",
      ".">>

PdfUndetected ==
    <<"C", "o", "u", "l", "d", " ", "n", "o", "t", " ", "d", "e", "t", "e", "c", "t", " ", "P", "D",
      "F", " ", "s", "t", "a", "t", "e", "m", "e", "n", "t", " ", "t", "y", "p", "e", ".", " ", "C",
      "u", "r", "r", "e", "n", "t", "l", "y", " ", "s", "u", "p", "p", "o", "r", "t", "s", " ", "E",
      "m", "i", "r", "a", "t", "e", "s", " ", "N", "B", "D", " ", "c", "r", "e", "d", "i", "t", " ",
      "c", "a", "r", "d", " ", "a", "n", "d", " ", "a", "c", "c", "o", "u", "n", "t", " ", "s", "t",
      "a", "t", "e", "m", "e", "n", "t", "s", ".">>

UnknownResult(message) ==
    ParseResult("Unknown", "Unknown", <<>>, NoMetadata, <<message>>)

\* A slip of the dispatch: undetected content goes to the account extractor.
parseCSVFileDefaultsToAccount(content) ==
    LET type == detectADCBType(content)
    IN  IF type = "creditcard"
        THEN [result |-> parseADCBCreditCard(content),
              calls |-> <<"detectADCBType", "parseADCBCreditCard">>]
        ELSE [result |-> parseADCBAccount(content),
              calls |-> <<"detectADCBType", "parseADCBAccount">>]

\* parseCSVFile after file.text(): the result and the calls made for it.
parseCSVFile(content) ==
    LET type == detectADCBType(content)
    IN  IF type = "account"
        THEN [result |-> parseADCBAccount(content),
              calls |-> <<"detectADCBType", "parseADCBAccount">>]
        ELSE IF type = "creditcard"
        THEN [result |-> parseADCBCreditCard(content),
              calls |-> <<"detectADCBType", "parseADCBCreditCard">>]
        ELSE [result |-> UnknownResult(CsvUndetected), calls |-> <<"detectADCBType">>]

\* textContent.items.map(item => item.str).join(' ')
FirstPageText(items) == Join([i \in 1..Len(items) |-> items[i].str], <<" ">>)

\* err.message of a faulting service call
FaultMessage == <<"I", "n", "v", "a", "l", "i", "d", " ", "P", "D", "F", " ", "s", "t", "r", "u",
                  "c", "t", "u", "r", "e", ".">>

StatementTypeOf(which) ==
    IF which = "creditcard" THEN "Credit Card Statement" ELSE "Account Statement"

\* what the extractor returns once extractTextFromPDF has returned allPages
ExtractorResult(which, allPages) ==
    IF which = "creditcard" THEN CreditCardResult(allPages)
    ELSE AccountStatementResult(allPages)

\* parseFile up to its first await: the route is taken, and the last branch
\* returns at once.
ParseFile(f) ==
    /\ pc = "idle"
    /\ file' = f
    /\ trace' = <<>>
    /\ extractor' = "none"
    /\ extPages' = <<>>
    /\ \E route \in {Route(f.name)} :
           IF route = "unsupported"
           THEN /\ result' = UnsupportedResult(f.name)
                /\ outcome' = "resolved"
                /\ pc' = "done"
           ELSE /\ result' = NoResult
                /\ outcome' = "pending"
                /\ pc' = CASE route = "csv" -> "csv_text"
                           [] route = "pdf" -> "pdf_import"
                           [] route = "xlsx" -> "xlsx_parse"
    /\ UNCHANGED <<pdfjsLib, pureVars, conVars>>

\* parseCSVFile: file.text() resolves and the rest runs without suspending.
CsvText ==
    /\ pc = "csv_text"
    /\ \E r \in {parseCSVFile(file.text)} :
           /\ result' = r.result
           /\ trace' = trace \o <<"file.text">> \o r.calls
    /\ outcome' = "resolved"
    /\ pc' = "done"
    /\ UNCHANGED <<file, pdfjsLib, extractor, extPages, pureVars, conVars>>

\* a step of parsePDFFile that only awaits a service call
PdfAwait(at, call, then) ==
    /\ pc = at
    /\ trace' = Append(trace, call)
    /\ pc' = then
    /\ UNCHANGED <<file, result, outcome, pdfjsLib, extractor, extPages, pureVars, conVars>>

PdfImport == PdfAwait("pdf_import", "import", "pdf_arrayBuffer")

PdfArrayBuffer == PdfAwait("pdf_arrayBuffer", "file.arrayBuffer", "pdf_getDocument")

\* getDocument resolves for the bytes of a document only
PdfGetDocument == file.kind = "pdf" /\ PdfAwait("pdf_getDocument", "getDocument", "pdf_getPage")

PdfGetPage == PdfAwait("pdf_getPage", "getPage", "pdf_getTextContent")

\* parsePDFFile from the first page's text on: detection, and either the
\* call of an extractor (which runs up to its first await) or the result.
PdfGetTextContent ==
    /\ pc = "pdf_getTextContent"
    /\ \E type \in {detectENBDType(FirstPageText(file.doc[1]))} :
           IF type = "null"
           THEN /\ trace' = trace \o <<"getTextContent", "detectENBDType">>
                /\ result' = UnknownResult(PdfUndetected)
                /\ outcome' = "resolved"
                /\ extractor' = "none"
                /\ pc' = "done"
           ELSE /\ trace' = trace \o <<"getTextContent", "detectENBDType",
                                       IF type = "creditcard" THEN "parseENBDCreditCard"
                                       ELSE "parseENBDAccount">>
                /\ extractor' = type
                /\ pc' = IF pdfjsLib = "null" THEN "ext_import" ELSE "ext_getPdfJs"
                /\ UNCHANGED <<result, outcome>>
    /\ UNCHANGED <<file, pdfjsLib, extPages, pureVars, conVars>>

\* getPdfJs found pdfjsLib empty when the extractor was called: the import
\* resolves and the module is assigned to pdfjsLib, whatever it holds by now
ExtImport ==
    /\ pc = "ext_import"
    /\ trace' = Append(trace, "import")
    /\ pdfjsLib' = "loaded"
    /\ pc' = "ext_arrayBuffer"
    /\ UNCHANGED <<file, result, outcome, extractor, extPages, pureVars, conVars>>

\* getPdfJs found the module in pdfjsLib when the extractor was called:
\* nothing is imported
ExtGetPdfJs ==
    /\ pc = "ext_getPdfJs"
    /\ pc' = "ext_arrayBuffer"
    /\ UNCHANGED <<file, result, outcome, pdfjsLib, trace, extractor, extPages, pureVars,
                   conVars>>

\* a step of extractTextFromPDF that only awaits a service call
ExtAwait(at, call, then) ==
    /\ pc = at
    /\ trace' = Append(trace, call)
    /\ pc' = then
    /\ UNCHANGED <<file, result, outcome, pdfjsLib, extractor, extPages, pureVars, conVars>>

ExtArrayBuffer == ExtAwait("ext_arrayBuffer", "file.arrayBuffer", "ext_getDocument")

ExtGetDocument == ExtAwait("ext_getDocument", "getDocument", "ext_getPage")

\* A slip of the page loop: the bytes are decoded again for each page.
ExtGetPageDecoding == ExtAwait("ext_getPage", "getDocument", "ext_getTextContent")

ExtGetPage == ExtAwait("ext_getPage", "getPage", "ext_getTextContent")

\* the rest of the page loop body, and after the last page the rest of the
\* extractor
ExtGetTextContent ==
    /\ pc = "ext_getTextContent"
    /\ trace' = Append(trace, "getTextContent")
    /\ \E allPages \in
              {Append(extPages, PageTextOf(MergedLines(file.doc[Len(extPages) + 1])))} :
           /\ extPages' = allPages
           /\ IF Len(allPages) < Len(file.doc)
              THEN /\ pc' = "ext_getPage"
                   /\ UNCHANGED <<result, outcome>>
              ELSE /\ result' = ExtractorResult(extractor, allPages)
                   /\ outcome' = "resolved"
                   /\ pc' = "done"
    /\ UNCHANGED <<file, pdfjsLib, extractor, pureVars, conVars>>

\* the awaits of parseCSVFile and parsePDFFile, none of them in a try block
OutsideAwaits ==
    {"csv_text", "pdf_import", "pdf_arrayBuffer", "pdf_getDocument", "pdf_getPage",
     "pdf_getTextContent"}

\* the awaits of extractTextFromPDF, all of them in the extractor's try block
ExtractorAwaits ==
    {"ext_import", "ext_getPdfJs", "ext_arrayBuffer", "ext_getDocument", "ext_getPage",
     "ext_getTextContent"}

\* the call recorded for the await at a pc value
CallAt(at) ==
    CASE at = "csv_text" -> "file.text"
      [] at \in {"pdf_import", "ext_import"} -> "import"
      [] at \in {"pdf_arrayBuffer", "ext_arrayBuffer"} -> "file.arrayBuffer"
      [] at \in {"pdf_getDocument", "ext_getDocument"} -> "getDocument"
      [] at \in {"pdf_getPage", "ext_getPage"} -> "getPage"
      [] at \in {"pdf_getTextContent", "ext_getTextContent"} -> "getTextContent"

\* A service call of parseCSVFile or parsePDFFile faults: nothing catches
\* it, and the promise of parseFile is rejected.
FaultOutside ==
    /\ pc \in OutsideAwaits
    /\ trace' = Append(trace, CallAt(pc))
    /\ outcome' = "rejected"
    /\ pc' = "done"
    /\ UNCHANGED <<file, result, pdfjsLib, extractor, extPages, pureVars, conVars>>

\* A slip of the catch block: the rows of the pages read before the fault
\* are kept in the result.
FaultInExtractorKeepingRows ==
    /\ pc \in ExtractorAwaits
    /\ pc # "ext_getPdfJs"
    /\ trace' = Append(trace, CallAt(pc))
    /\ result' = [PdfParsingError(StatementTypeOf(extractor), FaultMessage)
                      EXCEPT !.transactions = ExtractorResult(extractor, extPages).transactions]
    /\ outcome' = "resolved"
    /\ pc' = "done"
    /\ UNCHANGED <<file, pdfjsLib, extractor, extPages, pureVars, conVars>>

\* A service call of extractTextFromPDF faults: the catch block of the
\* extractor turns it into the one error of its result.
FaultInExtractor ==
    /\ pc \in ExtractorAwaits
    \* with the module in pdfjsLib, getPdfJs calls no service
    /\ pc # "ext_getPdfJs"
    /\ trace' = Append(trace, CallAt(pc))
    /\ result' = PdfParsingError(StatementTypeOf(extractor), FaultMessage)
    /\ outcome' = "resolved"
    /\ pc' = "done"
    /\ UNCHANGED <<file, pdfjsLib, extractor, extPages, pureVars, conVars>>

\* parseENBDCreditCardXLSX, whose body is not among the sources at hand: by
\* the written description it catches a fault of the spreadsheet service and
\* returns one error with a fixed label and no transactions.  Modelled are a
\* result without rows and that error; the label's text is a placeholder.
XlsxOutcomes ==
    {ParseResult("Emirates NBD", "Credit Card Statement", <<>>, NoMetadata, <<>>),
     ParseResult("Emirates NBD", "Credit Card Statement", <<>>, NoMetadata,
                 << <<"X", "L", "S", "X", " ", "p", "a", "r", "s", "i", "n", "g", " ", "e", "r", "r",
                      "o", "r", ":", " ">> \o FaultMessage >>)}

\* parseXLSXFile
XlsxParse ==
    /\ pc = "xlsx_parse"
    /\ trace' = Append(trace, "parseENBDCreditCardXLSX")
    /\ result' \in XlsxOutcomes
    /\ outcome' = "resolved"
    /\ pc' = "done"
    /\ UNCHANGED <<file, pdfjsLib, extractor, extPages, pureVars, conVars>>

\* The caller has the settled promise; the next call may start.  Only
\* pdfjsLib outlives the call.
Return ==
    /\ pc = "done"
    /\ file' = NoFile /\ result' = NoResult /\ outcome' = "none"
    /\ trace' = <<>> /\ extractor' = "none" /\ extPages' = <<>>
    /\ pc' = "idle"
    /\ UNCHANGED <<pdfjsLib, pureVars, conVars>>

(***************************************************************************)
(* The files parseFile is called with: every name of FileNames with every  *)
(* content, a text of up to MaxCsvLines lines of CsvLineChoices or a       *)
(* document of 1 to MaxPages pages of PageChoices.                         *)
(***************************************************************************)
MaxCsvLines == 2

MaxPages == 2

FileNames ==
    { <<"a", ".", "c", "s", "v">>, <<"A", ".", "C", "S", "V">>, <<"s", ".", "p", "d", "f">>, <<"S",
        ".", "P", "d", "f">>, <<"b", ".", "x", "l", "s", "x">>, <<"b", ".", "x", "l", "s">>,
      <<"r", "e", "p", "o", "r", "t", ".", "t", "x", "t">>, <<"R", ".", "T", "X", "T">>,
      <<"c", "s", "v">> }

CsvLineChoices ==
    { <<"A", "c", "c", "o", "u", "n", "t", " ", "N", "u", "m", "b", "e", "r", ":", " ", "1", "2">>,
      <<"P", "o", "s", "t", "i", "n", "g", " ", "D", "a", "t", "e", ",", "V", "a", "l", "u", "e",
        " ", "D", "a", "t", "e", ",", "R", "e", "f", ",", "D", "e", "s", "c", ",", "D", "e", "b",
        "i", "t", " ", "A", "m", "o", "u", "n", "t", ",", "C", "r", "e", "d", "i", "t", " ", "A",
        "m", "o", "u", "n", "t">>,
      <<"S", "t", "a", "t", "e", "m", "e", "n", "t", " ", "P", "e", "r", "i", "o", "d", ":", " ",
        "J", "a", "n", ",", "C", "r", "e", "d", "i", "t", " ", "L", "i", "m", "i", "t", ":", " ",
        "5">>,
      <<"T", "r", "a", "n", "s", "a", "c", "t", "i", "o", "n", " ", "D", "a", "t", "e", ",", "D",
        "e", "s", "c", ",", "C", "r", "/", "D", "r", ",", "A", "m", "o", "u", "n", "t", " ", "i",
        "n", " ", "A", "E", "D">>,
      <<"0", "1", "/", "0", "2", "/", "2", "0", "2", "4", ",", "0", "1", "/", "0", "2", "/", "2",
        "0", "2", "4", ",", "R", ",", "S", "h", "o", "p", ",", "1", "5", ".", "0", "0", ",", "0">>,
      <<"0", "2", "/", "0", "2", "/", "2", "0", "2", "4", ",", "0", "2", "/", "0", "2", "/", "2",
        "0", "2", "4", ",", "R", ",", "F", "e", "e", ",", "0", ",", "-", "5", ".", "0", "0">>,
      <<"0", "4", "/", "0", "2", "/", "2", "0", "2", "4", ",", "S", "h", "o", "p", ",", "D", "R",
        ",", "4", "2", ".", "5", "0">>,
      <<"0", "5", "/", "0", "2", "/", "2", "0", "2", "4", ",", "P", "a", "y", ",", "C", "R", ",",
        "0", ".", "0", "0">> }

CsvTexts == {Join(ls, <<"\n">>) : ls \in SeqsUpTo(CsvLineChoices, MaxCsvLines)}

Frag(str, tx, ty2) == [str |-> str, tx |-> tx, ty2 |-> ty2]

PageChoices ==
    { << Frag(<<"C", "r", "e", "d", "i", "t", " ", "C", "a", "r", "d", " ", "S", "t", "a", "t", "e",
                "m", "e", "n", "t">>, 10, 1400),
         Frag(<<"S", "h", "o", "p", " ", "2", "5", "0", ".", "0", "0", "C", "R">>, 90, 1200),
         Frag(<<"1", "5", "/", "0", "3", "/", "2", "0", "2", "4", " ", "1", "6", "/", "0", "3", "/",
                "2", "0", "2", "4">>, 10, 1203),
         Frag(<<"1", "7", "/", "0", "3", "/", "2", "0", "2", "4", " ", "1", "7", "/", "0", "3", "/",
                "2", "0", "2", "4", " ", "F", "e", "e", " ", "0", ".", "0", "0">>, 10, 1100) >>,
      << Frag(<<"C", "r", "e", "d", "i", "t", " ", "C", "a", "r", "d", " ", "S", "t", "a", "t", "e",
                "m", "e", "n", "t">>, 10, 1400),
         Frag(<<"1", "8", "/", "0", "3", "/", "2", "0", "2", "4", " ", "C", "a", "f", "e", " ", "1",
                "2", ".", "0", "0">>, 10, 1200) >>,
      << Frag(<<"S", "T", "A", "T", "E", "M", "E", "N", "T", " ", "O", "F", " ", "A", "C", "C", "O",
                "U", "N", "T">>, 10, 1400),
         Frag(<<"0", "1", " ", "J", "a", "n", " ", "2", "0", "2", "4", " ", "C", "A", "R", "D", " ",
                "-", "5", "0", ".", "0", "0", " ", "9", "0", "0", ".", "0", "0">>, 10, 1200),
         Frag(<<"D", "U", "B", "A", "I", " ", "A", "R", "E">>, 10, 1180),
         Frag(<<"0", "2", " ", "J", "a", "n", " ", "2", "0", "2", "4", " ", "N", "I", "L", " ", "0",
                ".", "0", "0", " ", "9", "0", "0", ".", "0", "0">>, 10, 1100) >>,
      << Frag(<<"H", "e", "l", "l", "o">>, 10, 1400) >>,
      << >> }

PdfDocs == UNION {[1..k -> PageChoices] : k \in 1..MaxPages}

\* file.text() of a document: bytes that no detector recognises
PdfBytesAsText == <<"%", "P", "D", "F", "-", "1", ".", "7">>

Files ==
    {[name |-> n, kind |-> "text", text |-> t, doc |-> <<>>] : n \in FileNames, t \in CsvTexts}
        \cup {[name |-> n, kind |-> "pdf", text |-> PdfBytesAsText, doc |-> d] :
                 n \in FileNames, d \in PdfDocs}

Init ==
    /\ pc = "idle"
    /\ OrcAtRest /\ ConAtRest
    /\ TokAtRest /\ LayAtRest /\ DatAtRest /\ ExpAtRest /\ EnbAtRest /\ DetAtRest

Next ==
    \/ \E f \in Files : ParseFile(f)
    \/ CsvText
    \/ PdfImport \/ PdfArrayBuffer \/ PdfGetDocument \/ PdfGetPage \/ PdfGetTextContent
    \/ ExtImport \/ ExtGetPdfJs \/ ExtArrayBuffer \/ ExtGetDocument \/ ExtGetPage \/ ExtGetTextContent
    \/ FaultOutside \/ FaultInExtractor
    \/ XlsxParse
    \/ Return

Spec == Init /\ [][Next]_vars

(***************************************************************************)
(* Extractor harness: each ADCB extractor applied to every text of         *)
(* CsvTexts, whatever the detector would say of it.                        *)
(***************************************************************************)
InitADCB ==
    /\ pc = "adcb_ready"
    /\ file \in {[name |-> <<>>, kind |-> "text", text |-> t, doc |-> <<>>] : t \in CsvTexts}
    /\ result = NoResult /\ outcome = "none" /\ pdfjsLib = "null"
    /\ trace = <<>> /\ extractor = "none" /\ extPages = <<>>
    /\ ConAtRest
    /\ TokAtRest /\ LayAtRest /\ DatAtRest /\ ExpAtRest /\ EnbAtRest /\ DetAtRest

ExtractAccount ==
    /\ pc = "adcb_ready"
    /\ result' = parseADCBAccount(file.text)
    /\ trace' = <<"parseADCBAccount">>
    /\ pc' = "adcb_done"
    /\ UNCHANGED <<file, outcome, pdfjsLib, extractor, extPages, pureVars, conVars>>

ExtractCreditCard ==
    /\ pc = "adcb_ready"
    /\ result' = parseADCBCreditCard(file.text)
    /\ trace' = <<"parseADCBCreditCard">>
    /\ pc' = "adcb_done"
    /\ UNCHANGED <<file, outcome, pdfjsLib, extractor, extPages, pureVars, conVars>>

NextADCB == ExtractAccount \/ ExtractCreditCard

SpecADCB == InitADCB /\ [][NextADCB]_vars

(***************************************************************************)
(* Detector harness: detectADCBType, and then the dispatch parseCSVFile    *)
(* makes on its answer, applied to texts of a first line, up to MaxFiller  *)
(* lines that hold no keyword, or are blank, and a last line.              *)
(***************************************************************************)
MaxFiller == 9

DetectFirstLines ==
    { <<"A", "c", "c", "o", "u", "n", "t", " ", "N", "u", "m", "b", "e", "r", ":", " ", "1", "2">>,
      <<"S", "t", "a", "t", "e", "m", "e", "n", "t", " ", "P", "e", "r", "i", "o", "d", ":", " ",
        "J", "a", "n">>,
      <<"S", "t", "a", "t", "e", "m", "e", "n", "t", " ", "P", "e", "r", "i", "o", "d", ":", " ",
        "J", "a", "n", ",", "C", "r", "e", "d", "i", "t", " ", "L", "i", "m", "i", "t", ":", " ",
        "5">>,
      <<"P", "o", "s", "t", "i", "n", "g", " ", "D", "a", "t", "e", ",", "V", "a", "l", "u", "e",
        " ", "D", "a", "t", "e", ",", "R", "e", "f", ",", "D", "e", "s", "c", ",", "D", "e", "b",
        "i", "t", " ", "A", "m", "o", "u", "n", "t", ",", "C", "r", "e", "d", "i", "t", " ", "A",
        "m", "o", "u", "n", "t">>,
      <<"\"", "P", "o", "s", "t", "i", "n", "g", " ", "D", "a", "t", "e", "\"", ",", "\"", "V", "a",
        "l", "u", "e", " ", "D", "a", "t", "e", "\"", ",", "\"", "D", "e", "b", "i", "t", " ", "A",
        "m", "o", "u", "n", "t", "\"">>,
      <<"T", "r", "a", "n", "s", "a", "c", "t", "i", "o", "n", " ", "D", "a", "t", "e", ",", "D",
        "e", "s", "c", ",", "C", "r", "/", "D", "r", ",", "A", "m", "o", "u", "n", "t", " ", "i",
        "n", " ", "A", "E", "D">>,
      <<"x">> }

DetectLastLines ==
    { <<"C", "r", "e", "d", "i", "t", " ", "L", "i", "m", "i", "t", ":", " ", "5">>,
      <<"0", "1", "/", "0", "2", "/", "2", "0", "2", "4", ",", "0", "1", "/", "0", "2", "/", "2",
        "0", "2", "4", ",", "R", ",", "S", "h", "o", "p", ",", "1", "5", ".", "0", "0", ",", "0">>,
      <<"P", "o", "s", "t", "i", "n", "g", " ", "D", "a", "t", "e", ",", "V", "a", "l", "u", "e",
        " ", "D", "a", "t", "e", ",", "R", "e", "f", ",", "D", "e", "s", "c", ",", "D", "e", "b",
        "i", "t", " ", "A", "m", "o", "u", "n", "t", ",", "C", "r", "e", "d", "i", "t", " ", "A",
        "m", "o", "u", "n", "t">>,
      <<"\"", "P", "o", "s", "t", "i", "n", "g", " ", "D", "a", "t", "e", "\"", ",", "\"", "V", "a",
        "l", "u", "e", " ", "D", "a", "t", "e", "\"", ",", "\"", "D", "e", "b", "i", "t", " ", "A",
        "m", "o", "u", "n", "t", "\"">>,
      <<"T", "r", "a", "n", "s", "a", "c", "t", "i", "o", "n", " ", "D", "a", "t", "e", ",", "D",
        "e", "s", "c", ",", "C", "r", "/", "D", "r", ",", "A", "m", "o", "u", "n", "t", " ", "i",
        "n", " ", "A", "E", "D">> }

FillerLines == { <<"x">>, <<" ", " ">> }

Repeat(line, k) == [i \in 1..k |-> line]

DetectTexts ==
    { Join(<<first>> \o Repeat(filler, k) \o <<last>>, <<"\n">>) :
          first \in DetectFirstLines, filler \in FillerLines, k \in 0..MaxFiller,
          last \in DetectLastLines }

InitDetect ==
    /\ pc = "det_ready"
    /\ file \in {[name |-> <<>>, kind |-> "text", text |-> t, doc |-> <<>>] : t \in DetectTexts}
    /\ result = NoResult /\ outcome = "none" /\ pdfjsLib = "null"
    /\ trace = <<>> /\ extractor = "none" /\ extPages = <<>>
    /\ ConAtRest
    /\ TokAtRest /\ LayAtRest /\ DatAtRest /\ ExpAtRest /\ EnbAtRest /\ DetAtRest

\* const type = detectADCBType(content)
DetectType ==
    /\ pc = "det_ready"
    /\ detType' = detectADCBType(file.text)
    /\ trace' = <<"detectADCBType">>
    /\ pc' = "det_typed"
    /\ UNCHANGED <<file, result, outcome, pdfjsLib, extractor, extPages, conVars,
                   tokVars, layVars, datVars, expVars, enbVars>>

\* the branches of parseCSVFile on type
DispatchOnType ==
    /\ pc = "det_typed"
    /\ result' = IF detType = "account" THEN parseADCBAccount(file.text)
                 ELSE IF detType = "creditcard" THEN parseADCBCreditCard(file.text)
                 ELSE UnknownResult(CsvUndetected)
    /\ trace' = IF detType = "account" THEN trace \o <<"parseADCBAccount">>
                ELSE IF detType = "creditcard" THEN trace \o <<"parseADCBCreditCard">>
                ELSE trace
    /\ pc' = "det_done"
    /\ UNCHANGED <<file, outcome, pdfjsLib, extractor, extPages, conVars, pureVars>>

NextDetect == DetectType \/ DispatchOnType

SpecDetect == InitDetect /\ [][NextDetect]_vars

(***************************************************************************)
(* Extractor harness: each Emirates NBD extractor applied to the pages of  *)
(* every document of up to MaxDocLines lines, on one page or with a page   *)
(* break after the first line, from the point where extractTextFromPDF has *)
(* returned them.  The card extractor runs line by line, pass after pass;  *)
(* the account extractor, which has one pass, runs in one step.            *)
(***************************************************************************)
MaxDocLines == 3

CardLineChoices ==
    { <<"0", "1", "/", "0", "2", "/", "2", "0", "2", "4", " ", "0", "2", "/", "0", "2", "/", "2",
        "0", "2", "4", " ", "S", "h", "o", "p", " ", "4", "2", ".", "5", "0">>,
      <<"0", "3", "/", "0", "2", "/", "2", "0", "2", "4", " ", "0", "4", "/", "0", "2", "/", "2",
        "0", "2", "4", " ", "R", "e", "f", "u", "n", "d", " ", "1", ",", "0", "0", "5", ".", "0",
        "0", "C", "R">>,
      <<"0", "5", "/", "0", "2", "/", "2", "0", "2", "4", " ", "K", "i", "o", "s", "k", " ", "1",
        "5", ".", "0", "0">>,
      <<"0", "6", "/", "0", "2", "/", "2", "0", "2", "4", " ", "0", "7", "/", "0", "2", "/", "2",
        "0", "2", "4", " ", "P", "r", "e", "v", "i", "o", "u", "s", " ", "S", "t", "a", "t", "e",
        "m", "e", "n", "t", " ", "1", "0", ".", "0", "0">> }

AccountLineChoices ==
    { <<"2", "4", " ", "J", "a", "n", " ", "2", "0", "2", "6", " ", " ", " ", "C", "C", " ", "N",
        "O", ".", "-", "4", "0", "3", "3", " ", "R", "M", "A", " ", " ", " ", "-", "3", "8", "5",
        "6", "4", ".", "2", "4", " ", " ", " ", " ", " ", "3", "3", "4", "1", ".", "0", "6", " ",
        "C", "r">>,
      <<" ", " ", " ", "E", "B", "I", "D", "2", "F", "8", "2", "5", "6", "8", "D", "A", "9", " ",
        "4">>,
      <<"2", "6", " ", "J", "a", "n", " ", "2", "0", "2", "6", " ", " ", " ", "C", "A", "R", "R",
        "I", "E", "D", " ", "F", "O", "R", "W", "A", "R", "D", " ", " ", " ", " ", " ", "9", "0",
        "0", ".", "0", "0", " ", "C", "r">>,
      <<"2", "7", " ", "J", "a", "n", " ", "2", "0", "2", "6", " ", " ", " ", "C", "H", "A", "R",
        "G", "E", "S", " ", "0", ".", "0", "0", " ", "9", "0", "0", ".", "0", "0", " ", "C", "r">>,
      <<"1", " ", "/", " ", "2">>,
      <<>> }

\* the k-th least element of a set of integers
KthLeast(set, k) == CHOOSE x \in set : Cardinality({y \in set : y <= x}) = k

\* the texts of the pages that hold the lines, a page ending after each line
\* of ends
PagesOfLines(lines, ends) ==
    [k \in 1..Cardinality(ends) |->
        Join(SubSeq(lines,
                    IF k = 1 THEN 1 ELSE KthLeast(ends, k - 1) + 1,
                    KthLeast(ends, k)), <<"\n">>)]

\* the documents made of the lines of choices
EnbdDocs(choices) ==
    { PagesOfLines(lines, cuts \cup {Len(lines)}) :
        <<lines, cuts>> \in
            UNION { { <<ls, c>> : c \in {{}} \cup {{1} : n \in 2..Len(ls)} }
                    : ls \in UNION { [1..n -> choices] : n \in 1..MaxDocLines } } }

\* the lines of a document in the order of the two nested loops: <<p, i>> for
\* line i of page p
LinePositions(pages) ==
    LET upTo[p \in 0..Len(pages)] ==
            IF p = 0 THEN <<>>
            ELSE upTo[p - 1] \o [i \in 1..Len(SplitOn(pages[p], "\n")) |-> <<p, i>>]
    IN  upTo[Len(pages)]

\* A slip of the pipeline: the looser pattern is applied whatever the first
\* pass gave.
UseFallbackAlways(transactions) == TRUE

\* if (transactions.length === 0)
UseFallback(transactions) == transactions = <<>>

InitENBD ==
    /\ pc = "enbd_ready"
    /\ \/ extractor = "creditcard" /\ extPages \in EnbdDocs(CardLineChoices)
       \/ extractor = "account" /\ extPages \in EnbdDocs(AccountLineChoices)
    /\ file = NoFile /\ result = NoResult /\ outcome = "none" /\ pdfjsLib = "loaded"
    /\ trace = <<>> /\ cursor = NoCursor
    /\ ConAtRest
    /\ TokAtRest /\ LayAtRest /\ DatAtRest /\ ExpAtRest /\ DetAtRest

\* parseENBDCreditCard from the pages to the first line of the first loop
CardBegin ==
    /\ pc = "enbd_ready" /\ extractor = "creditcard"
    /\ result' = ParseResult("Emirates NBD", "Credit Card Statement", <<>>,
                             CreditCardMetadata(Join(extPages, <<"\n">>)), <<>>)
    /\ cursor' = [pass |-> "primary", at |-> 1]
    /\ pc' = "card_lines"
    /\ UNCHANGED <<file, outcome, pdfjsLib, trace, extractor, extPages, conVars,
                   tokVars, layVars, datVars, expVars, detVars>>

\* one iteration of the line loop of the pass that runs
CardLine ==
    /\ pc = "card_lines"
    /\ cursor.at <= Len(LinePositions(extPages))
    /\ \E pos \in {LinePositions(extPages)[cursor.at]} :
           \E lines \in {SplitOn(extPages[pos[1]], "\n")} :
               \E row \in {IF cursor.pass = "primary" THEN PrimaryRow(lines, pos[2])
                           ELSE FallbackRow(lines, pos[2])} :
                   result' = [result EXCEPT !.transactions =
                                                IF row.ok THEN Append(@, row.tx) ELSE @]
    /\ trace' = Append(trace, <<cursor.pass, cursor.at>>)
    /\ cursor' = [cursor EXCEPT !.at = @ + 1]
    /\ UNCHANGED <<pc, file, outcome, pdfjsLib, extractor, extPages, conVars,
                   tokVars, layVars, datVars, expVars, detVars>>

\* the end of the first loop: the second pass, or the return
CardPrimaryEnd ==
    /\ pc = "card_lines" /\ cursor.pass = "primary"
    /\ cursor.at > Len(LinePositions(extPages))
    /\ IF UseFallback(result.transactions)
       THEN cursor' = [pass |-> "fallback", at |-> 1] /\ pc' = pc
       ELSE cursor' = cursor /\ pc' = "enbd_done"
    /\ UNCHANGED <<file, result, outcome, pdfjsLib, trace, extractor, extPages, conVars,
                   tokVars, layVars, datVars, expVars, detVars>>

\* the end of parseENBDCreditCardFallback
CardFallbackEnd ==
    /\ pc = "card_lines" /\ cursor.pass = "fallback"
    /\ cursor.at > Len(LinePositions(extPages))
    /\ pc' = "enbd_done"
    /\ UNCHANGED <<file, result, outcome, pdfjsLib, trace, extractor, extPages, conVars,
                   pureVars>>

\* parseENBDAccount from the pages to its return
AccountRun ==
    /\ pc = "enbd_ready" /\ extractor = "account"
    /\ result' = AccountStatementResult(extPages)
    /\ trace' = <<"parseENBDAccount">>
    /\ pc' = "enbd_done"
    /\ UNCHANGED <<file, outcome, pdfjsLib, extractor, extPages, conVars, pureVars>>

NextENBD == CardBegin \/ CardLine \/ CardPrimaryEnd \/ CardFallbackEnd \/ AccountRun

SpecENBD == InitENBD /\ [][NextENBD]_vars

(***************************************************************************)
(* Date harness: parseDDMMYYYY and parseMonthDate applied to every string  *)
(* made of up to MaxDateParts pieces of DateParts.                         *)
(***************************************************************************)
MaxDateParts == 5

DateParts == { <<"0", "1">>, <<"1">>, <<"/">>, <<"2", "0", "2", "4">>, <<" ", "S", "E", "P", " ">>,
                 <<" ", "F", "o", "o", " ">> }

DateStrings ==
    { Join(parts, <<>>) : parts \in UNION { [1..n -> DateParts] : n \in 0..MaxDateParts } }

InitDates ==
    /\ pc = "date_ready"
    /\ dateIn \in DateStrings
    /\ dateOut = <<>>
    /\ OrcAtRest /\ ConAtRest
    /\ TokAtRest /\ LayAtRest /\ ExpAtRest /\ EnbAtRest /\ DetAtRest

NormalizeNumeric ==
    /\ pc = "date_ready"
    /\ dateOut' = [by |-> "parseDDMMYYYY", value |-> parseDDMMYYYY(dateIn)]
    /\ pc' = "date_done"
    /\ UNCHANGED <<dateIn, tokVars, layVars, expVars, enbVars, detVars, orcVars, conVars>>

NormalizeTextual ==
    /\ pc = "date_ready"
    /\ dateOut' = [by |-> "parseMonthDate", value |-> parseMonthDate(dateIn)]
    /\ pc' = "date_done"
    /\ UNCHANGED <<dateIn, tokVars, layVars, expVars, enbVars, detVars, orcVars, conVars>>

NextDates == NormalizeNumeric \/ NormalizeTextual

SpecDates == InitDates /\ [][NextDates]_vars

(***************************************************************************)
(* Concurrent calls: the caller starts one parseFile call per file of its  *)
(* choice without awaiting the one before.  JavaScript runs one            *)
(* continuation at a time, so the calls interleave at their awaits only:   *)
(* the variables of the orchestrator are those of the call whose           *)
(* continuation runs, the other calls are parked at their await, and       *)
(* Switch hands the thread to another call.  pdfjsLib, a variable of the   *)
(* module enbd.ts, is the same for all calls.  The services answer every   *)
(* call.                                                                   *)
(***************************************************************************)
CallIds == {1, 2}

\* a call that has not started
IdleCall ==
    [pc |-> "idle", file |-> NoFile, result |-> NoResult, outcome |-> "none",
     trace |-> <<>>, extractor |-> "none", extPages |-> <<>>]

\* the locals of the call whose continuation runs
RunningCall ==
    [pc |-> pc, file |-> file, result |-> result, outcome |-> outcome,
     trace |-> trace, extractor |-> extractor, extPages |-> extPages]

IsCardPage(page) == page # <<>> /\ page[1].str = <<"C", "r", "e", "d", "i", "t", " ", "C", "a", "r",
                                                   "d", " ", "S", "t", "a", "t", "e", "m", "e", "n",
                                                   "t">>

\* the files of the concurrent calls: every one-page document, the two-page
\* documents of two different card pages, and one account text
ConFiles ==
    { f \in Files :
        \/ /\ f.kind = "pdf" /\ f.name = <<"s", ".", "p", "d", "f">>
           /\ \/ Len(f.doc) = 1
              \/ /\ Len(f.doc) = 2 /\ f.doc[1] # f.doc[2]
                 /\ IsCardPage(f.doc[1]) /\ IsCardPage(f.doc[2])
        \/ /\ f.kind = "text" /\ f.name = <<"a", ".", "c", "s", "v">>
           /\ f.text = <<"P", "o", "s", "t", "i", "n", "g", " ", "D", "a", "t", "e", ",", "V", "a",
                         "l", "u", "e", " ", "D", "a", "t", "e", ",", "R", "e", "f", ",", "D", "e",
                         "s", "c", ",", "D", "e", "b", "i", "t", " ", "A", "m", "o", "u", "n", "t",
                         ",", "C", "r", "e", "d", "i", "t", " ", "A", "m", "o", "u", "n", "t", "\n",
                         "0", "1", "/", "0", "2", "/", "2", "0", "2", "4", ",", "0", "1", "/", "0",
                         "2", "/", "2", "0", "2", "4", ",", "R", ",", "S", "h", "o", "p", ",", "1",
                         "5", ".", "0", "0", ",", "0">> }

InitConcurrent ==
    /\ pc = "idle"
    /\ OrcAtRest
    /\ active = 1
    /\ parked = [i \in CallIds |-> IdleCall]
    /\ TokAtRest /\ LayAtRest /\ DatAtRest /\ ExpAtRest /\ EnbAtRest /\ DetAtRest

\* A slip of the switch: the pages are not part of what is parked, as if
\* pages were a variable of the module.
SwitchSharingPages(i) ==
    /\ i # active
    /\ parked' = [parked EXCEPT ![active] = RunningCall, ![i] = IdleCall]
    /\ active' = i
    /\ pc' = parked[i].pc /\ file' = parked[i].file
    /\ result' = parked[i].result /\ outcome' = parked[i].outcome
    /\ trace' = parked[i].trace /\ extractor' = parked[i].extractor
    /\ UNCHANGED <<extPages, pdfjsLib, pureVars>>

\* The running continuation has reached an await (or the call has returned,
\* or has not started): the continuation of call i runs next, with its own
\* locals.
Switch(i) ==
    /\ i # active
    /\ parked' = [parked EXCEPT ![active] = RunningCall, ![i] = IdleCall]
    /\ active' = i
    /\ pc' = parked[i].pc /\ file' = parked[i].file
    /\ result' = parked[i].result /\ outcome' = parked[i].outcome
    /\ trace' = parked[i].trace /\ extractor' = parked[i].extractor
    /\ extPages' = parked[i].extPages
    /\ UNCHANGED <<pdfjsLib, pureVars>>

NextConcurrent ==
    \/ \E f \in ConFiles : ParseFile(f)
    \/ CsvText
    \/ PdfImport \/ PdfArrayBuffer \/ PdfGetDocument \/ PdfGetPage \/ PdfGetTextContent
    \/ ExtImport \/ ExtGetPdfJs \/ ExtArrayBuffer \/ ExtGetDocument \/ ExtGetPage
    \/ ExtGetTextContent
    \/ \E i \in CallIds : Switch(i)

SpecConcurrent == InitConcurrent /\ [][NextConcurrent]_vars

(***************************************************************************)
(* Claims about parseFile and the extractors (checked under Spec, and      *)
(* under SpecADCB where an extractor is called on its own)                 *)
(***************************************************************************)
\* a call of parseFile has returned a ParseResult
Resolved == pc = "done" /\ outcome = "resolved"

\* the part of a file name from its last "." on, the whole name without one
SuffixOf(name) ==
    CHOOSE out \in
        { IF \A i \in 1..Len(n) : n[i] # "." THEN n
          ELSE SubSeq(n, Greatest({i \in 1..Len(n) : n[i] = "."}), Len(n))
          : n \in {name} } : TRUE

\* C1 (as stated): in every state, every transaction of the result has an
\* amount other than zero.  parseADCBAccount breaks it: a row with debit 0
\* and a credit that is not positive is pushed with amount -0.
C1_AmountNeverZero ==
    \A i \in 1..Len(result.transactions) : ~NumIsZero(result.transactions[i].amount)

\* C2 (as stated): the promise of parseFile is never rejected.  The awaits of
\* parsePDFFile are in no try block, so a fault of a service call there
\* rejects it.
C2_NeverRejected == outcome # "rejected"

\* C3: a call of parseFile is on the path its lower-cased name's suffix
\* selects (.csv: file.text() first; .pdf: the import of the document
\* service first; .xlsx/.xls: the spreadsheet extractor), and for any other
\* name it has returned at once: no transactions, exactly one error, which
\* names the suffix, and no call to a service, a detector or an extractor.
C3_RoutesBySuffix ==
    file # NoFile =>
        \E n \in {ToLower(file.name)} :
            IF EndsWith(n, <<".", "c", "s", "v">>)
            THEN /\ pc \in {"csv_text", "done"}
                 /\ pc = "done" => trace # <<>> /\ trace[1] = "file.text"
            ELSE IF EndsWith(n, <<".", "p", "d", "f">>)
            THEN /\ pc \in OutsideAwaits \cup ExtractorAwaits \cup {"done"}
                 /\ pc # "csv_text"
                 /\ pc = "done" => trace # <<>> /\ trace[1] = "import"
            ELSE IF EndsWith(n, <<".", "x", "l", "s", "x">>) \/ EndsWith(n, <<".", "x", "l", "s">>)
            THEN /\ pc \in {"xlsx_parse", "done"}
                 /\ pc = "done" => trace = <<"parseENBDCreditCardXLSX">>
            ELSE /\ Resolved
                 /\ result.transactions = <<>>
                 /\ Len(result.errors) = 1
                 /\ StartsWith(result.errors[1], <<"U", "n", "s", "u", "p", "p", "o", "r", "t", "e",
                                                   "d", " ", "f", "i", "l", "e", " ", "t", "y", "p",
                                                   "e">>)
                 /\ Includes(result.errors[1], SuffixOf(n))
                 /\ trace = <<>> /\ extractor = "none" /\ extPages = <<>>

\* C3 witness: report.txt holding a two-page document has been answered with
\* the one error, and nothing of it was read.
C3_Witness ==
    /\ Resolved
    /\ file.name = <<"r", "e", "p", "o", "r", "t", ".", "t", "x",
                     "t">> /\ file.kind = "pdf" /\ Len(file.doc) = 2
    /\ Len(result.errors) = 1 /\ Includes(result.errors[1], <<".", "t", "x", "t">>)
    /\ trace = <<>>

\* C4: when parseFile has returned for a .csv file whose text detectADCBType
\* does not recognise, or for a .pdf file whose first page detectENBDType
\* does not recognise, the result is Unknown / Unknown with no transactions,
\* no metadata and exactly one error, which names the supported variants,
\* and the detector was the last thing called.
C4_UndetectedIsUnknown ==
    Resolved =>
        /\ (Route(file.name) = "csv" /\ detectADCBType(file.text) = "null") =>
               /\ result.bankName = "Unknown" /\ result.statementType = "Unknown"
               /\ result.transactions = <<>>
               /\ DOMAIN result.metadata = {}
               /\ Len(result.errors) = 1
               /\ Includes(result.errors[1], <<"A", "D", "C", "B", " ", "a", "c", "c", "o", "u", "n",
                                               "t", " ", "a", "n", "d", " ", "c", "r", "e", "d", "i",
                                               "t", " ", "c", "a", "r", "d", " ", "s", "t", "a", "t",
                                               "e", "m", "e", "n", "t", "s">>)
               /\ trace = <<"file.text", "detectADCBType">>
        /\ (/\ Route(file.name) = "pdf"
            /\ detectENBDType(FirstPageText(file.doc[1])) = "null") =>
               /\ result.bankName = "Unknown" /\ result.statementType = "Unknown"
               /\ result.transactions = <<>>
               /\ DOMAIN result.metadata = {}
               /\ Len(result.errors) = 1
               /\ Includes(result.errors[1],
                           <<"E", "m", "i", "r", "a", "t", "e", "s", " ", "N", "B", "D", " ", "c",
                             "r", "e", "d", "i", "t", " ", "c", "a", "r", "d", " ", "a", "n", "d",
                             " ", "a", "c", "c", "o", "u", "n", "t", " ", "s", "t", "a", "t", "e",
                             "m", "e", "n", "t", "s">>)
               /\ trace = <<"import", "file.arrayBuffer", "getDocument", "getPage",
                            "getTextContent", "detectENBDType">>
               /\ extractor = "none" /\ extPages = <<>>

\* C4 witness: a text of two card rows without the header row has been
\* answered with the Unknown result.
C4_Witness ==
    /\ Resolved
    /\ Route(file.name) = "csv"
    /\ file.text = <<"0", "4", "/", "0", "2", "/", "2", "0", "2", "4", ",", "S", "h", "o", "p", ",",
                     "D", "R", ",", "4", "2", ".", "5", "0", "\n", "0", "4", "/", "0", "2", "/", "2",
                     "0", "2", "4", ",", "S", "h", "o", "p", ",", "D", "R", ",", "4", "2", ".", "5",
                     "0">>
    /\ result.bankName = "Unknown"
    /\ Len(result.errors) = 1

\* C4 witness for documents: a first page reading "Hello".
C4_WitnessPdf ==
    /\ Resolved
    /\ Route(file.name) = "pdf"
    /\ FirstPageText(file.doc[1]) = <<"H", "e", "l", "l", "o">>
    /\ Len(file.doc) = 2
    /\ result.bankName = "Unknown"

\* no line of the content is the header row of the extractor that ran
NoAnchor(IsHeader(_)) ==
    \A i \in 1..Len(ContentLines(file.text)) : ~IsHeader(ContentLines(file.text)[i])

\* C5: when parseADCBAccount or parseADCBCreditCard has run on a content of
\* which no line is its header row, its result has exactly one error and no
\* transaction.
C5_NoAnchorOneError ==
    pc = "adcb_done" =>
        /\ (trace = <<"parseADCBAccount">> /\ NoAnchor(IsAccountHeader)) =>
               Len(result.errors) = 1 /\ result.transactions = <<>>
        /\ (trace = <<"parseADCBCreditCard">> /\ NoAnchor(IsCardHeader)) =>
               Len(result.errors) = 1 /\ result.transactions = <<>>

\* C5 witness: parseADCBAccount has run on two rows it would accept after a
\* header row, there is none, and the result is the one error.
C5_Witness ==
    /\ pc = "adcb_done"
    /\ trace = <<"parseADCBAccount">>
    /\ file.text = <<"0", "1", "/", "0", "2", "/", "2", "0", "2", "4", ",", "0", "1", "/", "0", "2",
                     "/", "2", "0", "2", "4", ",", "R", ",", "S", "h", "o", "p", ",", "1", "5", ".",
                     "0", "0", ",", "0", "\n", "0", "1", "/", "0", "2", "/", "2", "0", "2", "4", ",",
                     "0", "1", "/", "0", "2", "/", "2", "0", "2", "4", ",", "R", ",", "S", "h", "o",
                     "p", ",", "1", "5", ".", "0", "0", ",", "0">>
    /\ AccountRow(ContentLines(file.text)[1]).ok
    /\ Len(result.errors) = 1 /\ result.transactions = <<>>

\* C5 witness for parseADCBCreditCard
C5_WitnessCard ==
    /\ pc = "adcb_done"
    /\ trace = <<"parseADCBCreditCard">>
    /\ file.text = <<"0", "4", "/", "0", "2", "/", "2", "0", "2", "4", ",", "S", "h", "o", "p", ",",
                     "D", "R", ",", "4", "2", ".", "5", "0">>
    /\ CardRow(ContentLines(file.text)[1]).ok
    /\ Len(result.errors) = 1 /\ result.transactions = <<>>

\* two numbers are the same value
SameNumber(a, b) ==
    /\ ~a.nan /\ ~b.nan
    /\ a.m * (10 ^ b.e) = b.m * (10 ^ a.e)

\* the lines of the content after the first header row of the account
\* statement, none when there is no header row
LinesAfterAccountHeader(content) ==
    CHOOSE out \in
        { IF \A i \in 1..Len(ls) : ~IsAccountHeader(ls[i]) THEN <<>>
          ELSE SubSeq(ls, Least({i \in 1..Len(ls) : IsAccountHeader(ls[i])}) + 1, Len(ls))
          : ls \in {ContentLines(content)} } : TRUE

\* the line is a row parseADCBAccount accepts: six fields at least, a posting
\* date of the form DD/MM/YYYY, and debit and credit not both zero
IsAcceptedAccountLine(line) ==
    \E fields \in {parseCSVLine(line)} :
        /\ Len(fields) >= 6
        /\ IsDDMMYYYY(fields[1])
        /\ ~(NumIsZero(parseAmount(fields[5])) /\ NumIsZero(parseAmount(fields[6])))

\* credit if credit > 0, otherwise -debit, for the fields of an accepted line
ExpectedAccountAmount(line) ==
    CHOOSE out \in
        { IF ~dc[2].nan /\ dc[2].m > 0 THEN dc[2] ELSE [dc[1] EXCEPT !.m = 0 - dc[1].m]
          : dc \in {<<parseAmount(f[5]), parseAmount(f[6])>> : f \in {parseCSVLine(line)}} } : TRUE

\* C11: when parseADCBAccount has run, its transactions are the accepted rows
\* after the header row, in order, each with amount = credit if credit > 0
\* and -debit otherwise; the row with debit 15.00 and credit 0 of 01/02/2024
\* gives date 2024-02-01, its description as payee and amount -15.
C11_AmountFromDebitCredit ==
    (pc = "adcb_done" /\ trace = <<"parseADCBAccount">>) =>
        \E rows \in {LinesAfterAccountHeader(file.text)} :
            \E accepted \in {{i \in 1..Len(rows) : IsAcceptedAccountLine(rows[i])}} :
                /\ Len(result.transactions) = Cardinality(accepted)
                /\ \A i \in accepted :
                       \E tx \in {result.transactions[Cardinality({j \in accepted : j <= i})]} :
                           /\ tx.amount = ExpectedAccountAmount(rows[i])
                           /\ rows[i] = <<"0", "1", "/", "0", "2", "/", "2", "0", "2", "4", ",", "0",
                                          "1", "/", "0", "2", "/", "2", "0", "2", "4", ",", "R", ",",
                                          "S", "h", "o", "p", ",", "1", "5", ".", "0", "0", ",",
                                          "0">> =>
                                  /\ tx.date = <<"2", "0", "2", "4", "-", "0", "2", "-", "0", "1">>
                                  /\ tx.payee = <<"S", "h", "o", "p">>
                                  /\ SameNumber(tx.amount, Num(-15, 0))

\* C11 witness: the header row and the row with debit 15.00 and credit 0
\* have given exactly one transaction, of amount -15.
C11_Witness ==
    /\ pc = "adcb_done" /\ trace = <<"parseADCBAccount">>
    /\ file.text = <<"P", "o", "s", "t", "i", "n", "g", " ", "D", "a", "t", "e", ",", "V", "a", "l",
                     "u", "e", " ", "D", "a", "t", "e", ",", "R", "e", "f", ",", "D", "e", "s", "c",
                     ",", "D", "e", "b", "i", "t", " ", "A", "m", "o", "u", "n", "t", ",", "C", "r",
                     "e", "d", "i", "t", " ", "A", "m", "o", "u", "n", "t", "\n", "0", "1", "/", "0",
                     "2", "/", "2", "0", "2", "4", ",", "0", "1", "/", "0", "2", "/", "2", "0", "2",
                     "4", ",", "R", ",", "S", "h", "o", "p", ",", "1", "5", ".", "0", "0", ",",
                     "0">>
    /\ Len(result.transactions) = 1
    /\ result.transactions[1].date = <<"2", "0", "2", "4", "-", "0", "2", "-", "0", "1">>
    /\ SameNumber(result.transactions[1].amount, Num(-15, 0))

(***************************************************************************)
(* Claims about the calls of the content services (checked under Spec, and *)
(* under SpecConcurrent for several calls)                                 *)
(***************************************************************************)
\* the number of calls of the service in the trace of the running call
Calls(service) == Cardinality({i \in 1..Len(trace) : trace[i] = service})

\* the running call is one of parsePDFFile
OnDocument == pc # "idle" /\ Route(file.name) = "pdf"

\* C20 as stated: within one call on a document the bytes are read once at
\* most and decoded once at most.
C20_DecodedAtMostOnce ==
    OnDocument => Calls("file.arrayBuffer") <= 1 /\ Calls("getDocument") <= 1

\* C20, amended: within one call on a document the bytes are read and decoded
\* once by parsePDFFile, for detection, and once more by extractTextFromPDF
\* when a statement type was detected, never more: twice for a document that
\* is extracted, once for one that is not detected.
C20_DecodedOncePerStage ==
    OnDocument =>
        /\ Calls("file.arrayBuffer") <= 2 /\ Calls("getDocument") <= 2
        /\ Calls("getDocument") <= Calls("file.arrayBuffer")
        /\ Calls("file.arrayBuffer") = 2 =>
               /\ extractor \in {"creditcard", "account"}
               /\ Calls("detectENBDType") = 1
        /\ (Resolved /\ extractor = "none") =>
               Calls("file.arrayBuffer") = 1 /\ Calls("getDocument") = 1
        /\ (Resolved /\ extractor # "none" /\ result.errors = <<>>) =>
               Calls("file.arrayBuffer") = 2 /\ Calls("getDocument") = 2

\* C20 witness: a call on a document has returned transactions after two
\* reads and two decodings of its bytes.
C20_Witness ==
    /\ OnDocument /\ Resolved
    /\ result.transactions # <<>>
    /\ Calls("file.arrayBuffer") = 2 /\ Calls("getDocument") = 2

\* the locals of call i
CallContext(i) == IF i = active THEN RunningCall ELSE parked[i]

\* the pages extractTextFromPDF returns for the file
AlonePages(f) == [p \in 1..Len(f.doc) |-> PageTextOf(MergedLines(f.doc[p]))]

\* the statement type parsePDFFile detects for the file
AloneType(f) == detectENBDType(FirstPageText(f.doc[1]))

\* the ParseResult of a call on the file when no other call runs
AloneResult(f) ==
    CASE Route(f.name) = "csv" -> parseCSVFile(f.text).result
      [] Route(f.name) = "pdf" ->
             CHOOSE out \in
                 { IF type = "null" THEN UnknownResult(PdfUndetected)
                   ELSE ExtractorResult(type, AlonePages(f))
                   : type \in {AloneType(f)} } : TRUE
      [] OTHER -> UnsupportedResult(f.name)

\* the service, detector and extractor calls of a call on the file when no
\* other call runs and pdfjsLib is empty; without the import of getPdfJs
\* when cached
AloneTrace(f, cached) ==
    CASE Route(f.name) = "csv" -> <<"file.text">> \o parseCSVFile(f.text).calls
      [] Route(f.name) = "pdf" ->
             CHOOSE out \in
                 { <<"import", "file.arrayBuffer", "getDocument", "getPage", "getTextContent",
                     "detectENBDType">>
                       \o (IF type = "null" THEN <<>>
                           ELSE <<IF type = "creditcard" THEN "parseENBDCreditCard"
                                  ELSE "parseENBDAccount">>
                                    \o (IF cached THEN <<>> ELSE <<"import">>)
                                    \o <<"file.arrayBuffer", "getDocument">>
                                    \o [k \in 1..(2 * Len(f.doc)) |->
                                           IF k % 2 = 1 THEN "getPage" ELSE "getTextContent"])
                   : type \in {AloneType(f)} } : TRUE
      [] OTHER -> <<>>

\* call i has returned
CallDone(i) == CallContext(i).pc = "done"

\* C19 as stated: whatever the interleaving, each call returns the
\* ParseResult it returns alone, and observes nothing another call made: it
\* makes the service calls it makes alone.
C19_NoSharedData ==
    \A i \in CallIds :
        CallDone(i) =>
            \E c \in {CallContext(i)} :
                /\ c.outcome = "resolved"
                /\ c.result = AloneResult(c.file)
                /\ c.trace = AloneTrace(c.file, FALSE)

\* C19, amended: whatever the interleaving, each call returns the
\* ParseResult it returns alone, and the pages it accumulates are pages of
\* its own file.  The calls share the module variable pdfjsLib and nothing
\* else: a call whose extractor finds it filled by another call skips the
\* import of pdf.js it makes alone, and makes the same service calls
\* otherwise.
C19_SameResultSharedCache ==
    \A i \in CallIds :
        \E c \in {CallContext(i)} :
            /\ c.pc # "idle" /\ Route(c.file.name) = "pdf" =>
                   /\ Len(c.extPages) <= Len(c.file.doc)
                   /\ \A p \in 1..Len(c.extPages) :
                          c.extPages[p] = PageTextOf(MergedLines(c.file.doc[p]))
            /\ c.pc = "done" =>
                   /\ c.outcome = "resolved"
                   /\ c.result = AloneResult(c.file)
                   /\ \/ c.trace = AloneTrace(c.file, FALSE)
                      \/ /\ c.trace = AloneTrace(c.file, TRUE)
                         /\ pdfjsLib = "loaded"
                         /\ \E j \in CallIds \ {i} :
                                \E other \in {CallContext(j)} :
                                    /\ other.extractor # "none"
                                    /\ Len(other.trace) >= 8
                                    /\ other.trace[8] = "import"

\* C19 witness: two calls on different documents have both returned their
\* transactions, one of them without importing pdf.js in its extractor.
C19_Witness ==
    /\ \A i \in CallIds : CallDone(i) /\ CallContext(i).result.transactions # <<>>
    /\ CallContext(1).file # CallContext(2).file
    /\ CallContext(1).extractor # "none" /\ CallContext(2).extractor # "none"
    /\ \E i \in CallIds :
           /\ CallContext(i).trace = AloneTrace(CallContext(i).file, TRUE)
           /\ CallContext(i).trace # AloneTrace(CallContext(i).file, FALSE)

(***************************************************************************)
(* Claims about the Emirates NBD extractors (checked under SpecENBD)       *)
(***************************************************************************)
\* parseENBDAccount has returned
AccountDone == pc = "enbd_done" /\ extractor = "account"

\* the lines of page p
PageLines(pages, p) == SplitOn(pages[p], "\n")

\* the line is a dated row: a day, a month name and a year, then blanks
IsDatedRow(line) == DatePrefix(line, TRUE).found

\* the amount-shaped numeric fields of a dated row, from left to right
AmountFields(line) ==
    CHOOSE out \in
        { [k \in 1..Len(ms) |-> ms[k].value]
          : ms \in {AmountMatches(Drop(line, DatePrefix(line, TRUE).length), 1)} } : TRUE

\* what a dated row holds before its first amount field
RowDescription(line) ==
    CHOOSE out \in
        { Trim(SubSeq(rest, 1, AmountMatches(rest, 1)[1].index))
          : rest \in {Drop(line, DatePrefix(line, TRUE).length)} } : TRUE

\* the dated row has one numeric field, a balance: Cr or Dr ends the line
IsBalanceOnlyRow(line) ==
    /\ IsDatedRow(line)
    /\ Len(AmountFields(line)) = 1
    /\ \E t \in {Trim(line)} :
           /\ Len(t) > 2
           /\ ToLower(SubSeq(t, Len(t) - 1, Len(t))) \in {<<"c", "r">>, <<"d", "r">>}
           /\ IsDigit(Trim(SubSeq(t, 1, Len(t) - 2))[Len(Trim(SubSeq(t, 1, Len(t) - 2)))])

\* the dated row is a transaction row: it has an amount field that is not
\* zero after a description, and is neither a column header nor a balance
IsTransactionRow(line) ==
    /\ IsDatedRow(line)
    /\ \E fields \in {AmountFields(line)} :
           /\ fields # <<>>
           /\ fields[1].m # 0
    /\ ~IsBalanceOnlyRow(line)
    /\ \E d \in {RowDescription(line)} :
           d # <<>> /\ d # <<"D", "e", "s", "c", "r", "i", "p", "t", "i", "o", "n">> /\ ~Includes(d,
                             <<"D", "a", "t", "e">>)

\* the positions of the transaction rows of the document, in document order
TransactionRowPositions(pages) ==
    SelectSeq(LinePositions(pages),
              LAMBDA pos : IsTransactionRow(PageLines(pages, pos[1])[pos[2]]))

\* C12: the transactions of parseENBDAccount are those of the transaction
\* rows, in order; the amount of a row with two or more amount fields is its
\* first field and never its last, the balance; a dated row whose only
\* numeric field is a balance followed by Cr or Dr gives no transaction.
C12_FirstAmountNeverBalance ==
    AccountDone =>
        \E rows \in {TransactionRowPositions(extPages)} :
            /\ Len(result.transactions) = Len(rows)
            /\ \A k \in 1..Len(rows) :
                   \E line \in {PageLines(extPages, rows[k][1])[rows[k][2]]} :
                       \E fields \in {AmountFields(line)} :
                           /\ result.transactions[k].amount = fields[1]
                           /\ ~IsBalanceOnlyRow(line)
                           /\ (Len(fields) >= 2 /\ ~SameNumber(fields[Len(fields)], fields[1]))
                                  => ~SameNumber(result.transactions[k].amount,
                                                 fields[Len(fields)])

\* C12 witness: a row with a debit and a balance and a row with a balance
\* only have given one transaction, of the debit.
C12_Witness ==
    /\ AccountDone
    /\ extPages = << <<"2", "4", " ", "J", "a", "n", " ", "2", "0", "2", "6", " ", " ", " ", "C",
                       "C", " ", "N", "O", ".", "-", "4", "0", "3", "3", " ", "R", "M", "A", " ",
                       " ", " ", "-", "3", "8", "5", "6", "4", ".", "2", "4", " ", " ", " ", " ",
                       " ", "3", "3", "4", "1", ".", "0", "6", " ", "C", "r", "\n", "2", "6", " ",
                       "J", "a", "n", " ", "2", "0", "2", "6", " ", " ", " ", "C", "A", "R", "R",
                       "I", "E", "D", " ", "F", "O", "R", "W", "A", "R", "D", " ", " ", " ", " ",
                       " ", "9", "0", "0", ".", "0", "0", " ", "C", "r">> >>
    /\ Len(result.transactions) = 1
    /\ SameNumber(result.transactions[1].amount, Num(-3856424, 2))

\* parseENBDCreditCard has returned
CardDone == pc = "enbd_done" /\ extractor = "creditcard"

\* the entries of the trace up to its n-th are the lines 1 .. n of the pass
VisitedInOrder(pass, n) ==
    /\ Len(trace) >= n
    /\ \A k \in 1..n : trace[k] = <<pass, k>>

\* the second pass starts in this step
FallbackStarts == cursor.pass # "fallback" /\ cursor'.pass = "fallback"

\* C13: parseENBDCreditCard is a two-stage pipeline.  The fallback pattern is
\* applied to a line only after the primary pattern has been applied to
\* every line of every page, in document order, and has given no
\* transaction; when the primary pattern gives at least one transaction the
\* result holds exactly its transactions, in document order, and the
\* fallback pattern is applied to no line.
C13_TwoStagePipeline ==
    /\ [][FallbackStarts =>
              /\ cursor.pass = "primary"
              /\ VisitedInOrder("primary", Len(LinePositions(extPages)))
              /\ Len(trace) = Len(LinePositions(extPages))
              /\ result.transactions = <<>>]_vars
    /\ [](extractor = "creditcard" =>
              \A k \in 1..Len(trace) :
                  trace[k][1] = "fallback" =>
                      /\ k > Len(LinePositions(extPages))
                      /\ VisitedInOrder("primary", Len(LinePositions(extPages)))
                      /\ PrimaryTransactions(extPages) = <<>>)
    /\ [](CardDone /\ PrimaryTransactions(extPages) # <<>> =>
              /\ result.transactions = PrimaryTransactions(extPages)
              /\ trace = [k \in 1..Len(LinePositions(extPages)) |-> <<"primary", k>>])
    /\ [](CardDone /\ PrimaryTransactions(extPages) = <<>> =>
              result.transactions = FallbackTransactions(extPages))

\* C13 witness: a document with a row of the primary pattern and a row only
\* the fallback pattern takes has given the one transaction of the first.
C13_Witness ==
    /\ CardDone
    /\ extPages = << <<"0", "5", "/", "0", "2", "/", "2", "0", "2", "4", " ", "K", "i", "o", "s",
                       "k", " ", "1", "5", ".", "0", "0">>, <<"0", "1", "/", "0", "2", "/", "2", "0",
                       "2", "4", " ", "0", "2", "/", "0", "2", "/", "2", "0", "2", "4", " ", "S",
                       "h", "o", "p", " ", "4", "2", ".", "5", "0">> >>
    /\ FallbackTransactions(extPages) # <<>>
    /\ Len(result.transactions) = 1
    /\ result.transactions[1].payee = <<"S", "h", "o", "p">>
    /\ cursor.pass = "primary"

\* the line starts with a date: a day, a month name and a year
StartsWithDate(line) == DatePrefix(line, FALSE).found

\* the line is <digits> / <digits>, a page number
IsPageOfPages(trimmed) ==
    \E pieces \in {SplitOn(trimmed, "/")} :
        /\ Len(pieces) = 2
        /\ \A k \in 1..2 :
               /\ Trim(pieces[k]) # <<>>
               /\ \A i \in 1..Len(Trim(pieces[k])) : IsDigit(Trim(pieces[k])[i])

\* the line is blank, a footer or boilerplate
IsBoilerplate(line) ==
    \E trimmed \in {Trim(line)} :
        \/ trimmed = <<>>
        \/ \E phrase \in {<<"S", "T", "A", "T", "E", "M", "E", "N", "T", " ", "O", "F", " ", "A",
                            "C", "C", "O", "U", "N", "T">>, <<"e", "l", "e", "c", "t", "r", "o", "n",
                            "i", "c", "a", "l", "l", "y", " ", "g", "e", "n", "e", "r", "a", "t",
                            "e", "d">>,
                          <<"N", "e", "e", "d", " ", "h", "e", "l", "p">>, <<"E", "m", "i", "r", "a",
                            "t", "e", "s", " ", "N", "B", "D">>} : Includes(trimmed, phrase)
        \/ IsPageOfPages(trimmed)
        \/ StartsWith(trimmed, <<"T", "h", "i", "s", " ", "i", "s", " ", "a", "n">>)

\* the first line after line i that starts with a date or is boilerplate, one
\* past the last line when there is none
StoppingLine(lines, i) ==
    Least({j \in (i + 1)..Len(lines) : StartsWithDate(lines[j]) \/ IsBoilerplate(lines[j])}
              \cup {Len(lines) + 1})

\* the description of row i followed by the trimmed lines i+1 .. last, each
\* after a space
RECURSIVE SpaceJoined(_, _, _)
SpaceJoined(lines, i, last) ==
    IF last <= i THEN RowDescription(lines[i])
    ELSE SpaceJoined(lines, i, last - 1) \o <<" ">> \o Trim(lines[last])

\* C14: the payee of each transaction of parseENBDAccount is its row's
\* description followed, space-joined and in order, by the lines of the same
\* page after the row and before the first line that starts with a date or
\* is blank, a footer or boilerplate; no line from that one on is appended,
\* and none of the appended lines is a transaction row.
C14_ContinuationLines ==
    AccountDone =>
        \E rows \in {TransactionRowPositions(extPages)} :
            /\ Len(result.transactions) = Len(rows)
            /\ \A k \in 1..Len(rows) :
                   \E <<lines, i>> \in {<<PageLines(extPages, rows[k][1]), rows[k][2]>>} :
                       \E stop \in {StoppingLine(lines, i)} :
                           /\ result.transactions[k].payee =
                                  cleanENBDDescription(SpaceJoined(lines, i, stop - 1))
                           /\ \A j \in (i + 1)..(stop - 1) :
                                  /\ ~IsTransactionRow(lines[j])
                                  /\ \A n \in 1..Len(rows) :
                                         rows[n] # <<rows[k][1], j>>

\* C14 witness: a row, a detail line and a page number on one page have
\* given one transaction whose payee ends with the detail line.
C14_Witness ==
    /\ AccountDone
    /\ extPages = << <<"2", "4", " ", "J", "a", "n", " ", "2", "0", "2", "6", " ", " ", " ", "C",
                       "C", " ", "N", "O", ".", "-", "4", "0", "3", "3", " ", "R", "M", "A", " ",
                       " ", " ", "-", "3", "8", "5", "6", "4", ".", "2", "4", " ", " ", " ", " ",
                       " ", "3", "3", "4", "1", ".", "0", "6", " ", "C", "r", "\n", " ", " ", " ",
                       "E", "B", "I", "D", "2", "F", "8", "2", "5", "6", "8", "D", "A", "9", " ",
                       "4", "\n", "1", " ", "/", " ", "2">> >>
    /\ Len(result.transactions) = 1
    /\ result.transactions[1].payee = <<"C", "C", " ", "N", "O", ".", "-", "4", "0", "3", "3", " ",
                                        "R", "M", "A", " ", "E", "B", "I", "D", "2", "F", "8", "2",
                                        "5", "6", "8", "D", "A", "9", " ", "4">>

(***************************************************************************)
(* Claims about the date normalizers (checked under SpecDates)             *)
(***************************************************************************)
NumericDone == pc = "date_done" /\ dateOut.by = "parseDDMMYYYY"

TextualDone == pc = "date_done" /\ dateOut.by = "parseMonthDate"

AllDigits(s) == \A i \in 1..Len(s) : IsDigit(s[i])

\* the string is D Mon YYYY: a day of one or two digits, a month
\* abbreviation in any case and a year of four digits, a space between them
IsDMonYYYY(s) ==
    \E pieces \in {SplitOn(s, " ")} :
        /\ Len(pieces) = 3
        /\ Len(pieces[1]) \in {1, 2} /\ AllDigits(pieces[1])
        /\ Len(pieces[2]) = 3 /\ IsMonthName(pieces[2])
        /\ Len(pieces[3]) = 4 /\ AllDigits(pieces[3])

\* the string is YYYY-MM-DD
IsCanonicalDate(s) ==
    /\ Len(s) = 10
    /\ \A i \in {1, 2, 3, 4, 6, 7, 9, 10} : IsDigit(s[i])
    /\ s[5] = "-" /\ s[8] = "-"

\* the positions of "/" in the string
Slashes(s) == {i \in 1..Len(s) : s[i] = "/"}

\* C15 as stated: a string that is not strictly DD/MM/YYYY, or not
\* D Mon YYYY with a month abbreviation, comes back unchanged, and a string
\* of the shape comes back as YYYY-MM-DD.
C15_UnchangedUnlessStrict ==
    /\ NumericDone =>
           IF IsDDMMYYYY(dateIn) THEN IsCanonicalDate(dateOut.value)
           ELSE dateOut.value = dateIn
    /\ TextualDone =>
           IF IsDMonYYYY(dateIn) THEN IsCanonicalDate(dateOut.value)
           ELSE dateOut.value = dateIn

\* C15, amended: the normalizers return a string for every string.
\* parseDDMMYYYY returns its input unchanged exactly when it does not hold two
\* "/", and otherwise the third piece, the second and the first, the last
\* two padded to two characters, whatever the pieces are; parseMonthDate
\* returns YYYY-MM-DD for the first day, month abbreviation and year found
\* anywhere in the string, and its input unchanged when there is none.
\* Strings of the shapes DD/MM/YYYY and D Mon YYYY map to YYYY-MM-DD.
C15_UnchangedUnlessRecognised ==
    /\ NumericDone =>
           /\ dateOut.value \in Seq(STRING)
           /\ IsDDMMYYYY(dateIn) =>
                  dateOut.value = SubSeq(dateIn, 7, 10) \o <<"-">> \o SubSeq(dateIn, 4, 5)
                                      \o <<"-">> \o SubSeq(dateIn, 1, 2)
           /\ IF Cardinality(Slashes(dateIn)) # 2 THEN dateOut.value = dateIn
              ELSE \E <<a, b>> \in {<<Least(Slashes(dateIn)), Greatest(Slashes(dateIn))>>} :
                       /\ dateOut.value # dateIn
                       /\ dateOut.value =
                              SubSeq(dateIn, b + 1, Len(dateIn)) \o <<"-">>
                                  \o PadStart2(SubSeq(dateIn, a + 1, b - 1)) \o <<"-">>
                                  \o PadStart2(SubSeq(dateIn, 1, a - 1))
    /\ TextualDone =>
           /\ dateOut.value \in Seq(STRING)
           /\ IsDMonYYYY(dateIn) =>
                  \E pieces \in {SplitOn(dateIn, " ")} :
                      dateOut.value = pieces[3] \o <<"-">> \o MonthNumber(pieces[2])
                                          \o <<"-">> \o PadStart2(pieces[1])
           /\ dateOut.value # dateIn =>
                  /\ IsCanonicalDate(dateOut.value)
                  /\ \E p \in 1..Len(dateIn), d \in {1, 2} :
                         \E m \in {MonthDateAt(dateIn, p, d)} :
                             /\ m.found /\ IsMonthName(m.month)
                             /\ dateOut.value = m.year \o <<"-">> \o MonthNumber(m.month)
                                                    \o <<"-">> \o PadStart2(m.day)
           /\ dateOut.value = dateIn =>
                  \A p \in 1..Len(dateIn), d \in {1, 2} :
                      \E m \in {MonthDateAt(dateIn, p, d)} :
                          m.found /\ IsMonthName(m.month) =>
                              \E before \in 1..(p - 1), e \in {1, 2} :
                                  MonthDateAt(dateIn, before, e).found

\* C15 witness: 1/01/2024, which is not zero-padded, has come back as
\* 2024-01-01.
C15_Witness ==
    /\ NumericDone
    /\ dateIn = <<"1", "/", "0", "1", "/", "2", "0", "2", "4">>
    /\ ~IsDDMMYYYY(dateIn)
    /\ dateOut.value = <<"2", "0", "2", "4", "-", "0", "1", "-", "0", "1">>

\* a string around a date has come back as the date alone
C15_WitnessTextual ==
    /\ TextualDone
    /\ dateIn = <<"2", "0", "2", "4", " ", "S", "E", "P", " ", "2", "0", "2", "4", "/">>
    /\ dateOut.value = <<"2", "0", "2", "4", "-", "0", "9", "-", "2", "4">>

(***************************************************************************)
(* Claims about the tokenizer (checked under SpecCSV)                      *)
(***************************************************************************)
IsQuote(c) == c = DQ

NotQuote(c) == c # DQ

\* the number of double quotes among the first i - 1 characters of line
QuotesBefore(line, i) == CountIf(SubSeq(line, 1, i - 1), IsQuote)

\* the positions of the commas that lie outside a double-quoted span
UnquotedCommas(line) ==
    {i \in 1..Len(line) : line[i] = "," /\ QuotesBefore(line, i) % 2 = 0}

\* the position of the k-th unquoted comma; 0 before the first, Len + 1 after the last
SplitAt(line, k) ==
    LET uc == UnquotedCommas(line)
    IN  IF k = 0 THEN 0
        ELSE IF k > Cardinality(uc) THEN Len(line) + 1
        ELSE CHOOSE i \in uc : Cardinality({j \in uc : j < i}) = k - 1

\* the k-th piece of line between unquoted commas, quote marks dropped, trimmed
PieceOf(line, k) ==
    Trim(SelectSeq(SubSeq(line, SplitAt(line, k - 1) + 1, SplitAt(line, k) - 1), NotQuote))

IsComma(c) == c = ","

\* C6 (as claimed): a doubled double quote (a run of exactly two quote
\* characters) adds exactly one literal quote character to the field being
\* built and leaves the inside-quotes flag as it was.
C6_DoubledQuoteIsOneLiteralQuote ==
    pc = "tok_done" =>
        \A k \in 1..(Len(csvLine) - 1) :
            ( /\ csvLine[k] = DQ /\ csvLine[k + 1] = DQ
              /\ (k > 1 => csvLine[k - 1] # DQ)
              /\ (k + 2 <= Len(csvLine) => csvLine[k + 2] # DQ) )
            => /\ CsvScan(CsvStart, csvLine, 1, k + 1).current
                    = Append(CsvScan(CsvStart, csvLine, 1, k - 1).current, DQ)
               /\ CsvScan(CsvStart, csvLine, 1, k + 1).inQuotes = CsvScan(CsvStart, csvLine, 1, k - 1).inQuotes
               /\ CsvScan(CsvStart, csvLine, 1, k + 1).result = CsvScan(CsvStart, csvLine, 1, k - 1).result

\* C7: parseCSVLine returns, in order, the trimmed pieces of the line between
\* the commas that lie outside a quoted span (1 + the number of such commas
\* fields, quote marks themselves dropped); after an unterminated quote no
\* further split happens, so every later comma stays in the last field.
C7_FieldsAreUnquotedCommaPieces ==
    pc = "tok_done" =>
        LET n == Cardinality(UnquotedCommas(csvLine))
            q == CountIf(csvLine, IsQuote)
        IN  /\ Len(csvFields) = n + 1
            /\ \A k \in 1..(n + 1) : csvFields[k] = PieceOf(csvLine, k)
            /\ q % 2 = 1 =>
                 LET last == CHOOSE i \in 1..Len(csvLine) :
                                 csvLine[i] = DQ /\ QuotesBefore(csvLine, i) = q - 1
                 IN  CountIf(csvFields[n + 1], IsComma)
                        >= CountIf(SubSeq(csvLine, last + 1, Len(csvLine)), IsComma)

\* C7 witness: a quoted comma kept, an unquoted comma split at.
C7_Witness ==
    /\ pc = "tok_done"
    /\ csvLine = <<DQ, ",", DQ, ",", "a">>
    /\ csvFields = << <<",">>, <<"a">> >>

\* C7 witness of the unterminated quote: both later commas stay in the field.
C7_WitnessUnterminated ==
    /\ pc = "tok_done"
    /\ csvLine = <<"a", DQ, ",", "a", ",">>
    /\ csvFields = << <<"a", ",", "a", ",">> >>

(***************************************************************************)
(* Claims about the layout reconstruction (checked under SpecLayout)       *)
(***************************************************************************)
LayoutDone == pc \in {"lay_done", "lay_again"}

\* the supplied fragments that survive the blank filter
NonBlank == {i \in 1..Len(frags) : ~IsBlank(frags[i].str)}

RoundedY(i) == MathRound(frags[i].ty2)

\* the places <<l, k>> of the logical lines that hold fragment i
PlacesOf(i) ==
    {lk \in UNION {{<<l, k>> : k \in 1..Len(layLines[l].items)} : l \in 1..Len(layLines)} :
        layLines[lk[1]].items[lk[2]].src = i}

SameLine(i, j) == \E a \in PlacesOf(i) : \E b \in PlacesOf(j) : a[1] = b[1]

\* C8 (as claimed): two non-blank fragments share a logical line if and only
\* if their rounded y values differ by at most 4.
C8_SameLineIffWithinTolerance ==
    LayoutDone =>
        \A i \in NonBlank : \A j \in NonBlank :
            SameLine(i, j) <=> Abs(RoundedY(i) - RoundedY(j)) <= 4

\* C8 (amended): fragments of one logical line have rounded y values at most
\* 4 apart, and a fragment belongs to a line exactly when its rounded y lies
\* within 4 below the line's y, the rounded y of the line's topmost fragment.
C8_SameLineWithinToleranceOfTop ==
    LayoutDone =>
        /\ \A i \in NonBlank : \A j \in NonBlank :
               SameLine(i, j) => Abs(RoundedY(i) - RoundedY(j)) <= 4
        /\ \A i \in NonBlank : \A l \in 1..Len(layLines) :
               (\E a \in PlacesOf(i) : a[1] = l)
                   <=> (layLines[l].y - 4 <= RoundedY(i) /\ RoundedY(i) <= layLines[l].y)
        /\ \A l \in 1..Len(layLines) : \E i \in NonBlank :
               RoundedY(i) = layLines[l].y /\ (\E a \in PlacesOf(i) : a[1] = l)

\* C8 witness: fragments at 106, 101.5 and 100: the one at 102 joins the line
\* of 106, the one at 100 starts a line although it is 2 below the one at 102.
C8_Witness ==
    /\ pc = "lay_done"
    /\ Len(frags) = 3
    /\ frags[1].ty2 = 200 /\ frags[2].ty2 = 203 /\ frags[3].ty2 = 212
    /\ NonBlank = {1, 2, 3}
    /\ Len(layLines) = 2
    /\ SameLine(2, 3) /\ ~SameLine(1, 2)

\* no two non-blank fragments with different text at the same x and rounded y
NoCoincident ==
    \A i \in NonBlank : \A j \in NonBlank :
        (frags[i].tx = frags[j].tx /\ RoundedY(i) = RoundedY(j))
            => frags[i].str = frags[j].str

\* C9 (as claimed): the same fragments supplied in another order give the
\* same page text, byte for byte.
C9_OrderStable ==
    pc = "lay_again" => pageText = prevText

\* C9 (amended): the same fragments supplied in another order give the same
\* page text provided no two non-blank fragments with different text have
\* both the same x and the same rounded y.
C9_OrderStableUnlessCoincident ==
    (pc = "lay_again" /\ NoCoincident) => pageText = prevText

\* C9 witness: two fragments of one line, supplied right-to-left after
\* left-to-right, read "A B" both times.
C9_Witness ==
    /\ pc = "lay_again"
    /\ frags = << [str |-> <<"B">>, tx |-> 20, ty2 |-> 200],
                  [str |-> <<"A">>, tx |-> 10, ty2 |-> 200] >>
    /\ pageText = <<"A", " ", "B">>
    /\ prevText = <<"A", " ", "B">>

\* the text of the lines, written fragment by fragment: a newline before the
\* first fragment of every line but the first, a space before every other
\* fragment but the very first
RECURSIVE FlatText(_, _, _)
FlatText(ls, l, k) ==
    IF l > Len(ls) THEN <<>>
    ELSE IF k > Len(ls[l].items) THEN FlatText(ls, l + 1, 1)
    ELSE (IF k > 1 THEN <<" ">> ELSE IF l > 1 THEN <<"\n">> ELSE <<>>)
            \o ls[l].items[k].text \o FlatText(ls, l, k + 1)

\* C10: the page text lists the logical lines in strictly descending y, each
\* line being its fragments' texts in non-decreasing x joined by one space and
\* the lines joined by newlines; blank fragments appear nowhere and every
\* other fragment appears in exactly one line exactly once.
C10_PageTextLayout ==
    LayoutDone =>
        /\ \A l \in 1..(Len(layLines) - 1) : layLines[l].y > layLines[l + 1].y
        /\ \A l \in 1..Len(layLines) :
              /\ layLines[l].items # <<>>
              /\ \A k \in 1..(Len(layLines[l].items) - 1) :
                     layLines[l].items[k].x <= layLines[l].items[k + 1].x
              /\ \A k \in 1..Len(layLines[l].items) :
                    LET it == layLines[l].items[k]
                    IN  /\ it.src \in NonBlank
                        /\ it.text = frags[it.src].str
                        /\ it.x = frags[it.src].tx
        /\ \A i \in 1..Len(frags) :
              Cardinality(PlacesOf(i)) = (IF i \in NonBlank THEN 1 ELSE 0)
        /\ pageText = FlatText(layLines, 1, 1)

\* C10 witness: the line of 106, whose fragments at 106 (x 20) and 101.5
\* (x 10) read left to right, comes before the line of 100.
C10_Witness ==
    /\ pc = "lay_done"
    /\ frags = << [str |-> <<"B">>, tx |-> 20, ty2 |-> 212],
                  [str |-> <<"A">>, tx |-> 10, ty2 |-> 203],
                  [str |-> <<"A">>, tx |-> 10, ty2 |-> 200] >>
    /\ pageText = <<"A", " ", "B", "\n", "A">>

(***************************************************************************)
(* YNAB export: q, formatDate, formatAmount and toYNABCSV, as in the later *)
(* copy of the export module (the text from line 402 of enbd.ts).  The     *)
(* earlier copy, ynab-export.ts, quotes a field only when it must, leaves  *)
(* the unused column blank and keeps both decimals.                        *)
(***************************************************************************)
\* value.replace(/"/g, '""')
RECURSIVE DoubleQuotes(_)
DoubleQuotes(value) ==
    IF value = <<>> THEN <<>>
    ELSE (IF Head(value) = "\"" THEN <<"\"", "\"">> ELSE <<Head(value)>>)
             \o DoubleQuotes(Tail(value))

\* escapeCSV of the earlier copy: quotes only around a field that holds a
\* comma, a quote or a line break
escapeCSV(value) ==
    IF \E i \in 1..Len(value) : value[i] \in {",", "\"", "\n"}
    THEN <<"\"">> \o DoubleQuotes(value) \o <<"\"">>
    ELSE value

\* q: always quote, escape inner quotes by doubling
q(value) == <<"\"">> \o DoubleQuotes(value) \o <<"\"">>

\* formatDate: DD/MM/YYYY of YYYY-MM-DD
formatDate(isoDate) ==
    CHOOSE out \in
        { IF Len(parts) # 3 THEN isoDate
          ELSE parts[3] \o <<"/">> \o parts[2] \o <<"/">> \o parts[1]
          : parts \in {SplitOn(isoDate, "-")} } : TRUE

IsZeroChar(c) == c = "0"

\* the decimal digits of a natural number
RECURSIVE DecimalDigits(_)
DecimalDigits(n) ==
    IF n < 10 THEN <<DigitChars[n + 1]>>
    ELSE DecimalDigits(n \div 10) \o <<DigitChars[(n % 10) + 1]>>

\* Math.abs(n)
MathAbs(n) == IF n.nan THEN n ELSE [n EXCEPT !.m = IF @ < 0 THEN 0 - @ ELSE @]

\* abs.toFixed(2), for NaN and for the numbers of at most two decimals, which
\* toFixed renders exactly
ToFixed2(abs) ==
    IF abs.nan THEN <<"N", "a", "N">>
    ELSE CHOOSE out \in
             { DecimalDigits(cents \div 100) \o <<".">>
                   \o <<DigitChars[((cents \div 10) % 10) + 1], DigitChars[(cents % 10) + 1]>>
               : cents \in {abs.m * (10 ^ (2 - abs.e))} } : TRUE

\* fixed.replace(/\.?0+$/, ''): the zeros that end the string and the point
\* before them are removed
StripTrailingZeros(fixed) ==
    CHOOSE out \in
        { IF zeros = 0 THEN s
          ELSE IF Len(s) > zeros /\ s[Len(s) - zeros] = "."
               THEN SubSeq(s, 1, Len(s) - zeros - 1)
               ELSE SubSeq(s, 1, Len(s) - zeros)
          : <<s, zeros>> \in {<<f, RunBack(f, Len(f), IsZeroChar)>> : f \in {fixed}} } : TRUE

\* The earlier copy's rendering: both decimals are kept.
formatAmountFixed(n) == ToFixed2(MathAbs(n))

\* formatAmount
formatAmount(n) ==
    CHOOSE out \in
        { IF stripped = <<>> THEN <<"0">> ELSE stripped
          : stripped \in {StripTrailingZeros(ToFixed2(MathAbs(n)))} } : TRUE

\* tx.amount < 0 and tx.amount > 0
NumIsNegative(n) == ~n.nan /\ n.m < 0

\* The earlier copy's columns: the unused one is left blank.
OutflowInflowBlank(amount) ==
    << IF NumIsNegative(amount) THEN ToFixed2(MathAbs(amount)) ELSE <<>>,
       IF NumIsPositive(amount) THEN ToFixed2(MathAbs(amount)) ELSE <<>> >>

\* outflow and inflow of a row
OutflowInflow(amount) ==
    << IF NumIsNegative(amount) THEN formatAmount(amount) ELSE <<"0">>,
       IF NumIsPositive(amount) THEN formatAmount(amount) ELSE <<"0">> >>

\* one line of the text: the fields, each through q, with commas between
QuotedLine(fields) == Join([i \in 1..Len(fields) |-> q(fields[i])], <<",">>)

\* the line toYNABCSV pushes for a transaction
ExportRow(tx, format) ==
    IF format = "inflow-outflow"
    THEN QuotedLine(<<formatDate(tx.date), tx.payee, tx.memo>> \o OutflowInflow(tx.amount))
    ELSE QuotedLine(<<formatDate(tx.date), tx.payee, tx.memo,
                      (IF NumIsNegative(tx.amount) THEN <<"-">> ELSE <<>>)
                          \o formatAmount(tx.amount)>>)

\* the header line
ExportHeader(format) ==
    IF format = "inflow-outflow"
    THEN QuotedLine(<< <<"D", "a", "t", "e">>, <<"P", "a", "y", "e", "e">>, <<"M", "e", "m", "o">>,
                         <<"O", "u", "t", "f", "l", "o", "w">>, <<"I", "n", "f", "l", "o", "w">> >>)
    ELSE QuotedLine(<< <<"D", "a", "t", "e">>, <<"P", "a", "y", "e", "e">>, <<"M", "e", "m", "o">>,
                         <<"A", "m", "o", "u", "n", "t">> >>)

\* toYNABCSV: lines.join('\n')
toYNABCSV(transactions, format) ==
    Join(<<ExportHeader(format)>>
             \o [i \in 1..Len(transactions) |-> ExportRow(transactions[i], format)],
         <<"\n">>)

(***************************************************************************)
(* Export harness: toYNABCSV applied to every list of up to MaxTxs         *)
(* transactions of ExportTxChoices in both formats, and formatAmount       *)
(* applied to every amount of whole cents k * s, -MaxCents <= k <=         *)
(* MaxCents, s in AmountScales.                                            *)
(***************************************************************************)
MaxTxs == 3

MaxCents == 150

AmountScales == {1, 10, 100, 1000}

ExportTxChoices ==
    { Transaction(<<"2", "0", "2", "4", "-", "0", "2", "-", "0", "1">>, <<"A", "c", "m", "e", ",",
                    " ", "I", "n", "c">>, <<>>, Num(425, 1), <<"0", "1", "/", "0", "2", "/", "2",
                    "0", "2", "4">>),
      Transaction(<<"2", "0", "2", "4", "-", "0", "2", "-", "0", "1">>, <<"S", "h", "o", "p">>, <<>>,
                    Num(-1500, 2), <<"0", "1", "/", "0", "2", "/", "2", "0", "2", "4">>),
      Transaction(<<"2", "0", "2", "6", "-", "0", "1", "-", "2", "4">>, <<"T", "h", "e", " ", "\"",
                    "H", "u", "b", "\"">>, <<"(", "1", " ", "U", "S", "D", " ", "=", " ", "3", ".",
                    "6", "7", " ", "A", "E", "D", ")">>, Num(100000, 2),
                  <<"2", "4", " ", "J", "a", "n", " ", "2", "0", "2", "6">>),
      Transaction(<<"2", "0", "2", "6", "-", "0", "1", "-", "2", "4">>, <<"F", "e", "e">>, <<>>,
                    Num(0, 2), <<"2", "4", " ", "J", "a", "n", " ", "2", "0", "2", "6">>),
      Transaction(<<"2", "0", "2", "4", "-", "0", "2", "-", "0", "1">>, <<"K", "i", "o", "s", "k">>,
                    <<>>, NaN, <<"0", "1", "/", "0", "2", "/", "2", "0", "2", "4">>),
      Transaction(<<"2", "0", "2", "6", "-", "0", "1", "-", "2", "4">>, <<"C", "a", "f", "e">>, <<>>,
                    Num(-10, 2), <<"2", "4", " ", "J", "a", "n", " ", "2", "0", "2", "6">>) }

ExportFormats == {"inflow-outflow", "amount"}

InitYNAB ==
    /\ \/ /\ pc = "export_ready"
          /\ expTxs \in UNION { [1..n -> ExportTxChoices] : n \in 0..MaxTxs }
          /\ expFormat \in ExportFormats
          /\ expAmount = 0
       \/ /\ pc = "amount_ready"
          /\ expAmount \in { Num(k * s, 2) : k \in (0 - MaxCents)..MaxCents, s \in AmountScales }
          /\ expTxs = <<>> /\ expFormat = "none"
    /\ expCsv = <<>> /\ expAmountStr = <<>>
    /\ OrcAtRest /\ ConAtRest
    /\ TokAtRest /\ LayAtRest /\ DatAtRest /\ EnbAtRest /\ DetAtRest

Export ==
    /\ pc = "export_ready"
    /\ expCsv' = toYNABCSV(expTxs, expFormat)
    /\ pc' = "export_done"
    /\ UNCHANGED <<expTxs, expFormat, expAmount, expAmountStr,
                   tokVars, layVars, datVars, enbVars, detVars, orcVars, conVars>>

FormatAmount ==
    /\ pc = "amount_ready"
    /\ expAmountStr' = formatAmount(expAmount)
    /\ pc' = "amount_done"
    /\ UNCHANGED <<expTxs, expFormat, expCsv, expAmount,
                   tokVars, layVars, datVars, enbVars, detVars, orcVars, conVars>>

NextYNAB == Export \/ FormatAmount

SpecYNAB == InitYNAB /\ [][NextYNAB]_vars

(***************************************************************************)
(* Claims about the export (checked under SpecYNAB)                        *)
(***************************************************************************)
ExportDone == pc = "export_done"

\* the lines of the text toYNABCSV returned
ExportLines == SplitOn(expCsv, "\n")

\* what stands between the quotes of a field of the form "..."; the field
\* itself when it is not of that form
Unwrapped(field) ==
    IF Len(field) >= 2 /\ field[1] = "\"" /\ field[Len(field)] = "\""
    THEN SubSeq(field, 2, Len(field) - 1)
    ELSE field

\* the last two columns of a line, as written
LastTwoColumns(line) ==
    CHOOSE out \in
        { <<pieces[Len(pieces) - 1], pieces[Len(pieces)]>>
          : pieces \in {SplitOn(line, ",")} } : TRUE

\* the column holds the absolute value of the amount
HoldsAbsolute(column, amount) ==
    /\ column # <<>>
    /\ \A i \in 1..Len(column) : IsDigit(column[i]) \/ column[i] = "."
    /\ \E v \in {ParseFloat(column)} :
           v.m >= 0 /\ (SameNumber(v, amount) \/ SameNumber(v, NumNegate(amount)))

AmountDone == pc = "amount_done"

\* the whole cents of the absolute value of the amount handed to formatAmount
AbsoluteCents == IF expAmount.m < 0 THEN 0 - expAmount.m ELSE expAmount.m

\* the fixed two-decimal rendering of a number of cents: the integer part, a
\* point, two digits
FixedTwoDecimals(cents) ==
    DecimalDigits(cents \div 100) \o <<".">>
        \o DecimalDigits((cents \div 10) % 10) \o DecimalDigits(cents % 10)

RECURSIVE ReadQuoted(_, _, _, _)
ReadQuoted(line, at, text, fields) ==
    CHOOSE out \in
        { IF i > Len(s)
          THEN [ok |-> FALSE, fields |-> done]
          ELSE IF s[i] # "\""
               THEN ReadQuoted(s, i + 1, cur \o <<s[i]>>, done)
          ELSE IF i < Len(s) /\ s[i + 1] = "\""
               THEN ReadQuoted(s, i + 2, cur \o <<"\"">>, done)
          ELSE IF i = Len(s)
               THEN [ok |-> TRUE, fields |-> Append(done, cur)]
          ELSE IF i + 2 <= Len(s) /\ s[i + 1] = "," /\ s[i + 2] = "\""
               THEN ReadQuoted(s, i + 3, <<>>, Append(done, cur))
          ELSE [ok |-> FALSE, fields |-> done]
          : s \in {line}, i \in {at}, cur \in {text}, done \in {fields} } : TRUE

\* the fields of a line that starts with a quote
QuotedFields(line) ==
    IF line = <<>> \/ line[1] # "\"" THEN [ok |-> FALSE, fields |-> <<>>]
    ELSE ReadQuoted(line, 2, <<>>, <<>>)

\* DD/MM/YYYY of the date YYYY-MM-DD
DayMonthYear(date) ==
    SubSeq(date, 9, 10) \o <<"/">> \o SubSeq(date, 6, 7) \o <<"/">> \o SubSeq(date, 1, 4)

\* the amount columns of a transaction in the format
AmountColumns(tx, format) ==
    IF format = "inflow-outflow" THEN OutflowInflow(tx.amount)
    ELSE << (IF NumIsNegative(tx.amount) THEN <<"-">> ELSE <<>>) \o formatAmount(tx.amount) >>

DetectDone == pc \in {"det_typed", "det_done"}

\* the first n non-blank lines of a content, as a content
FirstNonBlank(content, n) ==
    LET lines == ContentLines(content)
    IN  Join(SubSeq(lines, 1, IF Len(lines) < n THEN Len(lines) ELSE n), <<"\n">>)

\* 'Credit Limit' stands in a non-blank line after the n-th and in none of
\* the first n, under a first line that holds 'Statement Period' and not
\* 'Account Number:'
CreditLimitOnlyBeyond(content, n) ==
    LET lines == ContentLines(content)
        limit(l) == Includes(l, <<"C", "r", "e", "d", "i", "t", " ", "L", "i", "m", "i", "t">>)
    IN  /\ lines # <<>>
        /\ Includes(lines[1], <<"S", "t", "a", "t", "e", "m", "e", "n", "t", " ", "P", "e", "r", "i",
                                "o", "d">>)
        /\ ~Includes(lines[1], <<"A", "c", "c", "o", "u", "n", "t", " ", "N", "u", "m", "b", "e",
                                 "r", ":">>)
        /\ \E i \in 1..Len(lines) : i > n /\ limit(lines[i])
        /\ \A i \in 1..Len(lines) : i <= n => ~limit(lines[i])

\* C21 as stated: detectADCBType inspects only a short prefix of the content,
\* so a content gets the classification of its first 10 non-blank lines (which
\* is a content that agrees with it on those lines).
C21_PrefixDecides ==
    DetectDone => detType = detectADCBType(FirstNonBlank(file.text, HeaderScanLines))

\* C21 as the code has it: a content gets the classification of its first 10
\* non-blank lines, except that the 'Credit Limit' of the credit-card rule is
\* looked for in every non-blank line of the content, not in the first line:
\* under a first line with 'Statement Period' (and no 'Account Number:'), a
\* 'Credit Limit' beyond the tenth line makes the content a credit-card
\* statement whatever its first ten lines say.  The marker phrase
\* 'Account Number:' counts in the first non-blank line only.
C21_PrefixDecidesButCreditLimit ==
    DetectDone =>
        \E lines \in {ContentLines(file.text)} :
            /\ IF CreditLimitOnlyBeyond(file.text, HeaderScanLines)
               THEN detType = "creditcard"
               ELSE detType = detectADCBType(FirstNonBlank(file.text, HeaderScanLines))
            /\ (lines # <<>> /\ Includes(lines[1], <<"A", "c", "c", "o", "u", "n", "t", " ", "N",
                                                     "u", "m", "b", "e", "r",
                                                     ":">>)) => detType = "account"
            /\ (\A i \in 1..Len(lines) :
                    ~Includes(lines[i], <<"A", "c", "c", "o", "u", "n", "t", " ", "N", "u", "m", "b",
                                          "e", "r", ":">>)
                    /\ ~Includes(lines[i], <<"S", "t", "a", "t", "e", "m", "e", "n", "t", " ", "P",
                                             "e", "r", "i", "o", "d">>)
                    /\ (i <= HeaderScanLines =>
                            ~Includes(lines[i], <<"P", "o", "s", "t", "i", "n", "g", " ", "D", "a",
                                                  "t", "e">>)
                            /\ ~Includes(lines[i], <<"T", "r", "a", "n", "s", "a", "c", "t", "i",
                                                     "o", "n", " ", "D", "a", "t", "e">>)))
                   => detType = "null"

\* a content of eleven non-blank lines whose eleventh holds 'Credit Limit' is
\* a credit-card statement; its first ten lines alone are not
C21_Witness ==
    /\ pc = "det_typed"
    /\ file.text = Join(<< <<"S", "t", "a", "t", "e", "m", "e", "n", "t", " ", "P", "e", "r", "i",
                             "o", "d", ":", " ", "J", "a", "n">> >> \o Repeat(<<"x">>, 9)
                            \o << <<"C", "r", "e", "d", "i", "t", " ", "L", "i", "m", "i", "t", ":",
                                    " ", "5">> >>, <<"\n">>)
    /\ Len(ContentLines(file.text)) = 11
    /\ detType = "creditcard"
    /\ detectADCBType(FirstNonBlank(file.text, HeaderScanLines)) = "null"

\* the marker phrase or the keyword pair of detectADCBType decides the content
ClassifiedByMarker(content) ==
    LET lines == ContentLines(content)
    IN  /\ lines # <<>>
        /\ \/ Includes(lines[1], <<"A", "c", "c", "o", "u", "n", "t", " ", "N", "u", "m", "b", "e",
                                   "r", ":">>)
           \/ /\ Includes(lines[1], <<"S", "t", "a", "t", "e", "m", "e", "n", "t", " ", "P", "e",
                                      "r", "i", "o", "d">>)
              /\ \E i \in 1..Len(lines) : Includes(lines[i], <<"C", "r", "e", "d", "i", "t", " ",
                      "L", "i", "m", "i", "t">>)

\* the content was classified, and by its column-header keyword sets
ClassifiedByHeader == detType \in {"account", "creditcard"} /\ ~ClassifiedByMarker(file.text)

\* the extractor returned its 'Could not find header row' error
HeaderRowError ==
    \E i \in 1..Len(result.errors) : Includes(result.errors[i], <<"C", "o", "u", "l", "d", " ", "n",
            "o", "t", " ", "f", "i", "n", "d", " ", "h", "e", "a", "d", "e", "r", " ", "r", "o",
            "w">>)

\* C25: detector and extractor agree on the anchor row: whenever detectADCBType
\* classifies a content by its column-header keyword sets, the extractor the
\* orchestrator then runs finds a header row in the same content and does not
\* return the 'Could not find header row' error.
C25_AnchorAgrees == (pc = "det_done" /\ ClassifiedByHeader) => ~HeaderRowError

\* The credit-card half of C25: the header test of parseADCBCreditCard asks
\* for two of the three keywords the detector asks for.
CardAnchorAgrees == (pc = "det_done" /\ ClassifiedByHeader /\ detType = "creditcard") => ~HeaderRowError

(***************************************************************************)
(* Claims about the errors of a result                                     *)
(***************************************************************************)
\* C22: every ParseResult returned by parseFile or by an extractor has at
\* most one entry in errors, and a result with an error has no transactions:
\* no partial transaction list is returned together with an error, even when
\* the text-extraction service faults on a page after the first.
C22_ErrorExcludesTransactions ==
    /\ Len(result.errors) <= 1
    /\ result.errors # <<>> => result.transactions = <<>>

\* C22 witness: the text of the second page could not be read after the first
\* page, which holds a transaction row, had been read: the result holds the
\* one error and no transaction.
C22_Witness ==
    /\ pc = "done" /\ outcome = "resolved"
    /\ Len(file.doc) = 2 /\ Len(extPages) = 1
    /\ ExtractorResult(extractor, extPages).transactions # <<>>
    /\ Len(result.errors) = 1
    /\ StartsWith(result.errors[1], <<"P", "D", "F", " ", "p", "a", "r", "s", "i", "n", "g", " ",
                                      "e", "r", "r", "o", "r", ":", " ">>)
    /\ result.transactions = <<>>

(***************************************************************************)
(* Claims about the greedy clustering                                      *)
(***************************************************************************)
\* the lines' y values are pairwise more than Y_TOLERANCE apart, and every
\* fragment of a line has its y within Y_TOLERANCE below the line's y
WellSeparated(mergedLines) ==
    /\ \A l \in 1..Len(mergedLines) : \A m \in 1..Len(mergedLines) :
           l # m => Abs(mergedLines[l].y - mergedLines[m].y) > Y_TOLERANCE
    /\ \A l \in 1..Len(mergedLines) : \A k \in 1..Len(mergedLines[l].items) :
           /\ mergedLines[l].y - Y_TOLERANCE <= mergedLines[l].items[k].y
           /\ mergedLines[l].items[k].y <= mergedLines[l].y

\* the lines within tolerance of an item
LinesWithin(mergedLines, item) ==
    {l \in 1..Len(mergedLines) : Abs(mergedLines[l].y - item.y) <= Y_TOLERANCE}

\* the lines of LinesWithin that no other line is nearer to the item than
NearestLines(mergedLines, item) ==
    {l \in LinesWithin(mergedLines, item) :
        \A m \in 1..Len(mergedLines) :
            Abs(mergedLines[l].y - item.y) <= Abs(mergedLines[m].y - item.y)}

\* a line as the fragments it holds, each with the number of its occurrences,
\* and the lines of a page as the set of these
FragmentsOf(line) ==
    LET recs == {[x |-> line.items[k].x, y |-> line.items[k].y, text |-> line.items[k].text] :
                    k \in 1..Len(line.items)}
    IN  [r \in recs |->
            Cardinality({k \in 1..Len(line.items) :
                            /\ line.items[k].x = r.x /\ line.items[k].y = r.y
                            /\ line.items[k].text = r.text})]

LinePartition(mergedLines) == {FragmentsOf(mergedLines[l]) : l \in 1..Len(mergedLines)}

\* the merging loop, at each of its iterations on the supplied fragments
ClusteringSteps ==
    \E sorted \in {SortItemsByYDesc(RawItems(frags))} :
        \A k \in 1..Len(sorted) :
            \E before \in {MergeLines(sorted, k - 1)} :
                /\ WellSeparated(MergeItem(before, sorted[k]))
                /\ Cardinality(LinesWithin(before, sorted[k])) <= 1
                /\ FindLine(before, sorted[k]) # 0
                       => FindLine(before, sorted[k]) \in NearestLines(before, sorted[k])

\* C23: in the greedy line clustering of extractTextFromPDF, after every
\* fragment is processed the lines' y values are pairwise more than 4 apart
\* and every fragment of a line has y in [line y - 4, line y]; when a fragment
\* is scanned at most one existing line is within tolerance of it, so the
\* first line found is the nearest one; and the partition of the fragments
\* into lines is the same when the fragments are supplied in another order
\* (two of them exchanged, from every order).
C23_GreedyClustering ==
    /\ [](pc = "lay_done" => ClusteringSteps)
    /\ [][pc' = "lay_again" => LinePartition(layLines') = LinePartition(layLines)]_vars

\* C23 witness: fragments at 100, 101.5 and 106, the topmost supplied last, make
\* the lines of 106 (with the fragment at 102) and of 100, and the same lines
\* again when supplied in another order.
C23_Witness ==
    /\ pc = "lay_again"
    /\ Len(frags) = 3
    /\ {MathRound(frags[i].ty2) : i \in 1..3} = {100, 102, 106}
    /\ \A i \in 1..3 : ~IsBlank(frags[i].str)
    /\ MathRound(frags[3].ty2) = 106
    /\ Len(layLines) = 2
    /\ layLines[1].y = 106 /\ Len(layLines[1].items) = 2
    /\ layLines[2].y = 100 /\ Len(layLines[2].items) = 1

(***************************************************************************)
(* Claims about administrative lines of a card statement                   *)
(***************************************************************************)
\* the line holds one of the phrases of an administrative row
IsAdministrativeLine(line) ==
    \/ Includes(line, <<"T", "r", "a", "n", "s", "a", "c", "t", "i", "o", "n", " ", "D", "a", "t",
                        "e">>)
    \/ Includes(line, <<"P", "o", "s", "t", "i", "n", "g", " ", "D", "a", "t", "e">>)
    \/ Includes(line, <<"P", "r", "e", "v", "i", "o", "u", "s", " ", "S", "t", "a", "t", "e", "m",
                        "e", "n", "t">>)

\* the result holds a transaction read from the line (the lines of
\* CardLineChoices differ in their first date)
EmittedFor(line) ==
    \E k \in 1..Len(result.transactions) :
        StartsWith(Trim(line), result.transactions[k].originalDate)

AdministrativeEmitted ==
    \E p \in 1..Len(extPages) :
        \E line \in {PageLines(extPages, p)[i] : i \in 1..Len(PageLines(extPages, p))} :
            IsAdministrativeLine(line) /\ EmittedFor(line)

\* C24: parseENBDCreditCard never emits a transaction for an administrative
\* line: a line whose description holds 'Transaction Date', 'Posting Date' or
\* 'Previous Statement' has no transaction in the returned result, whichever
\* of the primary and the fallback pass made the result.
C24_NoAdministrativeRow == CardDone => ~AdministrativeEmitted

\* The primary half of C24: a result the primary pass made holds no
\* transaction of an administrative line.
PrimaryNoAdministrativeRow ==
    (CardDone /\ cursor.pass = "primary") => ~AdministrativeEmitted

====
